---- MODULE Spec2Model ----
(***************************************************************************)
(* The reask orchestration engine of guardrails (src/guardrails/run.py):   *)
(* Runner.__call__ and AsyncRunner.async_run, the per-iteration pipeline   *)
(* step / async_step (prepare, call, parse, validate, introspect,          *)
(* finalize), the loop decision do_loop and the reask set-up               *)
(* prepare_to_loop.                                                        *)
(*                                                                         *)
(* Every Python value is a record with a tag field t, so that values of    *)
(* different Python types can be compared.  The collaborators that are not *)
(* part of run.py (schema.parse / validate / introspect / get_reask_setup, *)
(* sub_reasks_with_fixed_values, GuardLogs, GuardHistory, GuardState) are  *)
(* modelled by what the orchestrator observes of them.  The sources of     *)
(* nondeterminism are the model client (each invocation of api either      *)
(* raises or returns a raw text of one of a few response classes), the     *)
(* caller abandoning an asynchronous run while it is suspended, and the    *)
(* order in which the event loop resumes suspended coroutines.             *)
(***************************************************************************)
EXTENDS Integers, Sequences, FiniteSets, TLC

\* Largest retry budget (num_reasks) explored.
MaxReasks == 2

\* Largest retry budget explored when a runner is invoked twice.
MaxReasksAgain == 1

\* Largest retry budget explored when two runs are interleaved.
MaxReasksConcurrent == 1

VARIABLES
    cfg,          \* the construction parameters shared by the runners
    self,         \* runner objects: class and the guard_history attribute
    hist,         \* heap of GuardHistory objects: id -> sequence of GuardLogs
    guard_state,  \* GuardState: the history ids pushed onto it, oldest first
    fr,           \* invocation frames: locals of __call__ / async_run and step
    oracle,       \* results the model client has produced, in invocation order
    unit          \* a validator or helper applied on its own: its arguments, the
                  \* object its value argument refers to, and what it returned

vars == <<cfg, self, hist, guard_state, fr, oracle, unit>>

Runners == {1, 2}
Frames == {1, 2}

----------------------------------------------------------------------------
(* Values *)

None == [t |-> "None"]
IsNone(v) == v.t = "None"

\* A raw text.  cls is what the schema makes of it: "empty" is the empty
\* string, "garbage" does not parse, "null" parses to None, "valid" passes
\* validation, "invalid" has one field that fails with the reask policy,
\* "filtered" has its only field dropped by the filter policy.
Str(c) == [t |-> "str", cls |-> c]
ApiClasses == {"garbage", "null", "valid", "invalid", "filtered"}
LiteralClasses == ApiClasses \cup {"empty"}

LLMResponse(output) == [t |-> "LLMResponse", output |-> output]

Dict(fields) == [t |-> "dict", f |-> fields]
NonParseableReAsk == [t |-> "NonParseableReAsk"]
FieldReAsk(path) == [t |-> "FieldReAsk", path |-> path]

Prompt(src, gen) ==
    [t |-> "Prompt", src |-> src, gen |-> gen, fmt |-> FALSE, pre |-> FALSE]
Instructions(src, gen) ==
    [t |-> "Instructions", src |-> src, gen |-> gen, fmt |-> FALSE, pre |-> FALSE]
MsgHistory == [t |-> "MsgHistory", fmt |-> FALSE, source |-> FALSE]
Schema(gen) == [t |-> "Schema", gen |-> gen]

\* Python truthiness of the values above.
Truthy(v) ==
    CASE v.t = "None" -> FALSE
      [] v.t = "str"  -> v.cls # "empty"
      [] v.t = "dict" -> v.f # <<>>
      [] OTHER        -> TRUE

\* x or y
PyOr(x, y) == IF Truthy(x) THEN x ELSE y

\* prompt.format(**prompt_params), instructions.format(**prompt_params) and
\* the formatting of every message of a message history.
Format(p) == [p EXCEPT !.fmt = TRUE]

\* prompt.source / instructions.source: the text sent to the model client.
Source(p) == IF IsNone(p) THEN None ELSE [p EXCEPT !.t = "source"]

ValueError(msg, keys) == [t |-> "ValueError", msg |-> msg, keys |-> keys]
\* The exception the k-th invocation of the model client raised (a timeout,
\* a transport or an API error: the runner does not look at its kind).
ApiException(k) == [t |-> "Exception", msg |-> "model client failed", call |-> k]

\* A fresh GuardLogs object: every field unset.
GuardLogs ==
    [prompt |-> None, instructions |-> None, msg_history |-> None,
     llm_response |-> None, parsed_output |-> None,
     validated_output |-> None, reasks |-> <<>>]

\* A record left in a history by an earlier use of it.
OldLogs == [GuardLogs EXCEPT !.llm_response = LLMResponse(Str("valid"))]

----------------------------------------------------------------------------
(* Collaborators outside run.py *)

\* schema.parse(output) -> (parsed_output, error)
SchemaParse(raw) ==
    CASE raw.cls \in {"garbage", "empty"} ->
            [parsed |-> NonParseableReAsk, error |-> TRUE]
      [] raw.cls = "null"     -> [parsed |-> None, error |-> FALSE]
      [] raw.cls = "valid"    -> [parsed |-> Dict(<<"good">>), error |-> FALSE]
      [] raw.cls = "invalid"  ->
            [parsed |-> Dict(<<"good", "bad">>), error |-> FALSE]
      [] raw.cls = "filtered" -> [parsed |-> Dict(<<"drop">>), error |-> FALSE]

\* One field under its validator's on-fail policy.
RECURSIVE ValidateFields(_)
ValidateFields(fs) ==
    IF fs = <<>> THEN <<>>
    ELSE LET rest == ValidateFields(Tail(fs))
         IN CASE Head(fs) = "bad"  -> <<"REASK">> \o rest
              [] Head(fs) = "drop" -> rest
              [] OTHER             -> <<Head(fs)>> \o rest

\* schema.validate(guard_logs, parsed_output, metadata)
SchemaValidate(parsed) ==
    IF parsed.t = "dict" THEN Dict(ValidateFields(parsed.f)) ELSE parsed

\* The metadata updates the validators of the fields of a parsed value
\* return: each leaves a key for the field it saw.
MetadataUpdates(parsed) ==
    IF parsed.t = "dict" THEN {parsed.f[i] : i \in 1..Len(parsed.f)} ELSE {}

\* A validated structure in full: an object or a list of children, a plain
\* value, or the marker put in the place of a field that failed, carrying
\* the incorrect value.  (Dict above is the same with one level of fields
\* and the marker written "REASK".)
Nested(t, kids) == [t |-> t, kids |-> kids]
Value(x) == [t |-> "value", v |-> x]
ReAskOf(incorrect_value) ==
    [t |-> "FieldReAsk", incorrect_value |-> incorrect_value]
\* What substitution leaves for an unparseable response: an explicit
\* "could not produce valid output" value.
NoValidOutput == [t |-> "NoValidOutput"]
Resolved(x) == [t |-> "resolved", v |-> x]

RECURSIVE SchemaIntrospect(_)
RECURSIVE IntrospectFrom(_, _)

\* The markers of the children of v from the i-th on, depth first.
IntrospectFrom(v, i) ==
    IF i > Len(v.kids) THEN <<>>
    ELSE SchemaIntrospect(v.kids[i]) \o IntrospectFrom(v, i + 1)

\* schema.introspect(validated_output): the markers, in traversal order.
SchemaIntrospect(v) ==
    CASE v.t = "NonParseableReAsk" -> <<v>>
      [] v.t = "FieldReAsk" -> <<v>>
      [] v.t = "dict" ->
            LET idx == SelectSeq([i \in 1..Len(v.f) |-> i],
                                 LAMBDA i : v.f[i] = "REASK")
            IN [k \in 1..Len(idx) |-> FieldReAsk(idx[k])]
      [] v.t \in {"object", "list"} -> IntrospectFrom(v, 1)
      [] OTHER -> <<>>

RECURSIVE sub_reasks_wraps_and_unwraps(_)
sub_reasks_wraps_and_unwraps(v) ==
    CASE v.t = "FieldReAsk" -> Resolved(v.incorrect_value)
      [] v.t = "resolved" -> v.v
      [] v.t = "NonParseableReAsk" -> NoValidOutput
      [] v.t \in {"object", "list"} ->
            [v EXCEPT !.kids = [i \in 1..Len(@) |->
                                  sub_reasks_wraps_and_unwraps(@[i])]]
      [] OTHER -> v

RECURSIVE sub_reasks_with_fixed_values(_)

\* reask_utils.sub_reasks_with_fixed_values(value)
sub_reasks_with_fixed_values(v) ==
    CASE v.t = "dict" ->
            Dict([i \in 1..Len(v.f) |->
                    IF v.f[i] = "REASK" THEN "fixed" ELSE v.f[i]])
      [] v.t = "FieldReAsk" -> v.incorrect_value
      [] v.t = "NonParseableReAsk" -> NoValidOutput
      [] v.t \in {"object", "list"} ->
            [v EXCEPT !.kids = [i \in 1..Len(@) |->
                                  sub_reasks_with_fixed_values(@[i])]]
      [] OTHER -> v

\* schema.get_reask_setup(reasks, original_response, use_full_schema,
\* prompt_params) -> (output_schema, prompt, instructions)
get_reask_setup(schema, reasks, original_response, use_full_schema) ==
    [output_schema |-> Schema(schema.gen + 1),
     prompt        |-> Prompt("reask", schema.gen + 1),
     instructions  |-> Instructions("reask", schema.gen + 1)]

\* schema.preprocess_prompt(api, instructions, prompt)
preprocess_prompt(instructions, prompt) ==
    [instructions |-> IF IsNone(instructions) THEN None
                      ELSE [instructions EXCEPT !.pre = TRUE],
     prompt       |-> [prompt EXCEPT !.pre = TRUE]]

\* What one invocation of the model client can do: raise, or return a text.
ApiResults ==
    {[exc |-> "raised", cls |-> "-"]}
        \cup {[exc |-> "none", cls |-> c] : c \in ApiClasses}

----------------------------------------------------------------------------
(* Construction *)

\* The literal output given to the constructor: none, or a text.
Outputs == {None} \cup {Str(c) : c \in LiteralClasses}

\* What verify_metadata_requirements(metadata, root_datatype) returns: the
\* required metadata keys that are missing.
MissingKeyLists == {<<>>, <<"k1", "k2">>}

\* The arguments of Runner.__init__ .  A prompt requires an api and excludes
\* a (non-empty) output: the two assertions of the constructor.
Configs ==
    {c \in [num_reasks : 0..MaxReasks, api : BOOLEAN, prompt : BOOLEAN,
            instructions : BOOLEAN, msg_history : BOOLEAN, output : Outputs,
            missing_keys : MissingKeyLists, prior : BOOLEAN,
            full_schema_reask : {FALSE}] :
        c.prompt => (c.api /\ ~Truthy(c.output))}

\* The same with full_schema_reask=True, explored where a reask can happen
\* and has a prompt to replace: a budget of one retry at least, a prompt,
\* no missing metadata key, a new history.
FullSchemaConfigs ==
    {[c EXCEPT !.full_schema_reask = TRUE] :
        c \in {d \in Configs : /\ d.num_reasks >= 1
                               /\ d.prompt
                               /\ d.missing_keys = <<>>
                               /\ ~d.prior}}

\* self.prompt, self.instructions, self.msg_history as the constructor
\* leaves them.
SelfPrompt == IF cfg.prompt THEN Prompt("user", 0) ELSE None
SelfInstructions == IF cfg.instructions THEN Instructions("user", 0) ELSE None
SelfMsgHistory == IF cfg.msg_history THEN MsgHistory ELSE None

\* A frame that has not been invoked (pc "idle") or does not exist ("absent").
NewFrame(r, pc0) ==
    [pc |-> pc0, runner |-> r, index |-> 0,
     \* the loop variables of __call__ / async_run
     instructions |-> None, prompt |-> None, msg_history |-> None,
     output_schema |-> None, include_instructions |-> FALSE,
     \* the parameters and locals of step / async_step
     s_instructions |-> None, s_prompt |-> None, s_msg_history |-> None,
     output |-> None, gl |-> [h |-> 0, i |-> 0],
     llm_response |-> None, parsed_output |-> None, parsing_error |-> FALSE,
     validated_output |-> None, reasks |-> <<>>,
     \* the outcome of the test of line 259 (not do_loop), the fields of
     \* guard_logs assigned so far in this step, in order, and the
     \* awaitables the coroutine is suspended on
     terminal |-> FALSE, writes |-> <<>>, aw |-> <<>>,
     \* what step returned, what the invocation raised or returned
     ret |-> None, err |-> None, result |-> 0,
     \* the collaborator invocations made so far, and how many of them were
     \* invocations of the model client
     log |-> <<>>, nd |-> 0]

Me(f) == fr[f]
IsSync(f) == self[fr[f].runner].cls = "Runner"
IsAsync(f) == self[fr[f].runner].cls = "AsyncRunner"

\* The GuardLogs object the step of frame f writes to.
Logs(f) == hist[fr[f].gl.h][fr[f].gl.i]

Raise(f, e, log) ==
    fr' = [fr EXCEPT ![f].pc = "raised", ![f].err = e,
                     ![f].log = fr[f].log \o log]

----------------------------------------------------------------------------
(* Runner *)

\* A reset that pushes the history the runner holds instead of a new one.
reset_guard_history_keeps(r) ==
    /\ UNCHANGED <<hist, self>>
    /\ guard_state' = Append(guard_state, self[r].guard_history)

\* Runner._reset_guard_history
reset_guard_history(r) ==
    /\ hist' = Append(hist, <<>>)
    /\ self' = [self EXCEPT ![r].guard_history = Len(hist) + 1]
    /\ guard_state' = Append(guard_state, Len(hist) + 1)

\* do_loop without its test of the markers.
do_loop_budget_only(index, reasks) == index < cfg.num_reasks

\* do_loop with its test of the markers negated.
do_loop_negated(index, reasks) == reasks = <<>> /\ index < cfg.num_reasks

\* Runner.do_loop
do_loop(index, reasks) == reasks # <<>> /\ index < cfg.num_reasks

\* The metadata check looking at nothing.
missing_keys_unchecked == <<>>

\* missing_keys = verify_metadata_requirements(self.metadata,
\*                    self.output_schema.root_datatype)
missing_keys == cfg.missing_keys

\* ValueError(f"Missing required metadata keys: {', '.join(missing_keys)}")
MissingKeysError == ValueError("Missing required metadata keys", missing_keys)

\* The loop variables as both drivers set them before the first iteration.
EnterLoop(f, include) ==
    [fr[f] EXCEPT !.pc = "step", !.index = 0,
                  !.instructions = SelfInstructions, !.prompt = SelfPrompt,
                  !.msg_history = SelfMsgHistory, !.output_schema = Schema(0),
                  !.include_instructions = include,
                  !.log = Append(@, [op |-> "verify_metadata_requirements"])]

\* Runner.__call__ up to the first iteration: the metadata check, then the
\* reset of the history.
RunnerCall(f) ==
    /\ Me(f).pc = "idle"
    /\ IsSync(f)
    /\ IF missing_keys # <<>>
       THEN /\ Raise(f, MissingKeysError,
                     <<[op |-> "verify_metadata_requirements"]>>)
            /\ UNCHANGED <<self, hist, guard_state>>
       ELSE /\ reset_guard_history(Me(f).runner)
            /\ fr' = [fr EXCEPT ![f] =
                        EnterLoop(f, ~(IsNone(SelfInstructions)
                                         /\ IsNone(SelfMsgHistory)))]
    /\ UNCHANGED <<unit, cfg, oracle>>

\* AsyncRunner.async_run up to the first iteration: the reset of the
\* history, then the metadata check.
async_run(f) ==
    /\ Me(f).pc = "idle"
    /\ IsAsync(f)
    /\ reset_guard_history(Me(f).runner)
    /\ IF missing_keys # <<>>
       THEN Raise(f, MissingKeysError,
                  <<[op |-> "verify_metadata_requirements"]>>)
       ELSE fr' = [fr EXCEPT ![f] = EnterLoop(f, FALSE)]
    /\ UNCHANGED <<unit, cfg, oracle>>

----------------------------------------------------------------------------
(* One iteration: step / async_step *)

\* The literal output given to every iteration.
step_output_every_iteration(index) == cfg.output

\* output=self.output if index == 0 else None
step_output(index) == IF index = 0 THEN cfg.output ELSE None

\* The head of step: a new GuardLogs is pushed onto self.guard_history, and
\* the parameters of step are bound (output is the literal only at index 0).
StepBeginAt(f, keep) ==
    LET h == self[Me(f).runner].guard_history
    IN /\ Me(f).pc = "step"
       /\ hist' = [hist EXCEPT ![h] = Append(SubSeq(@, 1, keep), GuardLogs)]
       /\ fr' = [fr EXCEPT ![f] =
                   [@ EXCEPT !.pc = "prepare",
                             !.gl = [h |-> h, i |-> keep + 1],
                             !.s_instructions = Me(f).instructions,
                             !.s_prompt = Me(f).prompt,
                             !.s_msg_history = Me(f).msg_history,
                             !.output = step_output(Me(f).index),
                             !.llm_response = None, !.parsed_output = None,
                             !.parsing_error = FALSE,
                             !.validated_output = None, !.reasks = <<>>,
                             !.terminal = FALSE, !.writes = <<>>,
                             !.ret = None]]
       /\ UNCHANGED <<unit, cfg, self, guard_state, oracle>>

\* step putting its record in the place of those the history holds.
StepBegin_overwrites(f) == StepBeginAt(f, 0)

\* guard_logs = GuardLogs(); self.guard_history.push(guard_logs)
StepBegin(f) == StepBeginAt(f, Len(hist[self[Me(f).runner].guard_history]))

\* Runner.prepare after its test of api: the rendered (instructions,
\* prompt, msg_history), or the error it raises.
render(instructions, prompt, msg_history) ==
    IF Truthy(msg_history)
    THEN [ok |-> TRUE, instructions |-> None, prompt |-> None,
          msg_history |-> Format(msg_history), log |-> <<>>]
    ELSE IF ~IsNone(prompt)
    THEN LET p == Format(prompt)
             i == IF ~IsNone(instructions) THEN Format(instructions)
                  ELSE instructions
             pp == preprocess_prompt(i, p)
         IN [ok |-> TRUE, instructions |-> pp.instructions,
             prompt |-> pp.prompt, msg_history |-> msg_history,
             log |-> <<[op |-> "preprocess_prompt", instructions |-> i,
                        prompt |-> p]>>]
    ELSE [ok |-> FALSE,
          err |-> ValueError("Prompt or message history must be provided.",
                             <<>>)]

\* prepare without its test of api.
prepare_api_unchecked(instructions, prompt, msg_history, api) == render(instructions, prompt, msg_history)

\* Runner.prepare
prepare(instructions, prompt, msg_history, api) ==
    IF ~api
    THEN [ok |-> FALSE, err |-> ValueError("API must be provided.", <<>>)]
    ELSE render(instructions, prompt, msg_history)

\* The Prepare stage of step: skipped when a (truthy) output is given; its
\* result is recorded in the GuardLogs.
StagePrepare(f) ==
    LET me == Me(f)
        res == IF Truthy(me.output)
               THEN [ok |-> TRUE, instructions |-> None, prompt |-> None,
                     msg_history |-> None, log |-> <<>>]
               ELSE prepare(me.s_instructions, me.s_prompt, me.s_msg_history,
                            cfg.api)
    IN /\ me.pc = "prepare"
       /\ IF res.ok
          THEN /\ hist' = [hist EXCEPT
                             ![me.gl.h][me.gl.i].prompt = res.prompt,
                             ![me.gl.h][me.gl.i].instructions = res.instructions,
                             ![me.gl.h][me.gl.i].msg_history = res.msg_history]
               /\ fr' = [fr EXCEPT ![f] =
                           [@ EXCEPT !.pc = "call",
                                     !.s_instructions = res.instructions,
                                     !.s_prompt = res.prompt,
                                     !.s_msg_history = res.msg_history,
                                     !.writes = @ \o <<"prompt", "instructions",
                                                       "msg_history">>,
                                     !.log = @ \o res.log]]
          ELSE /\ Raise(f, res.err, <<>>)
               /\ UNCHANGED hist
       /\ UNCHANGED <<unit, cfg, self, guard_state, oracle>>

\* msg_history_source
msg_history_source(msg_history) == [msg_history EXCEPT !.source = TRUE]

\* The request Runner.call sends: which of its branches is taken, and the
\* arguments of api in it (None: no branch sends a request).
CallRequest(instructions, prompt, msg_history) ==
    IF Truthy(msg_history)
    THEN [t |-> "request", prompt |-> None, instructions |-> None,
          msg_history |-> msg_history_source(msg_history)]
    ELSE IF Truthy(prompt) /\ Truthy(instructions)
    THEN [t |-> "request", prompt |-> Source(prompt),
          instructions |-> Source(instructions), msg_history |-> None]
    ELSE IF Truthy(prompt)
    THEN [t |-> "request", prompt |-> Source(prompt), instructions |-> None,
          msg_history |-> None]
    ELSE None

\* One invocation of the model client, as the log of frame f keeps it: the
\* arguments of api, and the index of the iteration that made it.
ApiCall(index, req, hint) ==
    [op |-> "api", index |-> index, prompt |-> req.prompt,
     instructions |-> req.instructions, msg_history |-> req.msg_history,
     base_model |-> hint]

\* The next result of the model client for frame f: the one already drawn
\* at this position of the invocation order, or a new one.
Draw(f, res) ==
    LET k == Me(f).nd + 1
    IN IF k <= Len(oracle)
       THEN res = oracle[k] /\ UNCHANGED oracle
       ELSE res \in ApiResults /\ oracle' = Append(oracle, res)

\* step going on to Parse without recording the response.
Responded_unrecorded(f, response, log) ==
    /\ UNCHANGED hist
    /\ fr' = [fr EXCEPT ![f] =
                [@ EXCEPT !.pc = "parse", !.llm_response = response,
                          !.aw = <<>>,
                          !.log = @ \o log,
                          !.nd = @ + Len(log)]]

\* call returned llm_response: step records it and goes on to Parse.
Responded(f, response, log) ==
    /\ hist' = [hist EXCEPT
                  ![Me(f).gl.h][Me(f).gl.i].llm_response = response]
    /\ fr' = [fr EXCEPT ![f] =
                [@ EXCEPT !.pc = "parse", !.llm_response = response,
                          !.writes = Append(@, "llm_response"),
                          !.aw = <<>>,
                          !.log = @ \o log,
                          !.nd = @ + Len(log)]]

\* Runner.call up to the outcome of the first invocation of api (the one
\* that passes base_model).
StageCall(f, msgApi, msgPrompt) ==
    LET me == Me(f)
        req == CallRequest(me.s_instructions, me.s_prompt, me.s_msg_history)
    IN /\ me.pc = "call"
       /\ IF ~IsNone(me.output)
          THEN /\ Responded(f, LLMResponse(me.output), <<>>)
               /\ UNCHANGED oracle
          ELSE IF ~cfg.api
          THEN /\ Raise(f, ValueError(msgApi, <<>>), <<>>)
               /\ UNCHANGED <<hist, oracle>>
          ELSE IF IsNone(req)
          THEN /\ Raise(f, ValueError(msgPrompt, <<>>), <<>>)
               /\ UNCHANGED <<hist, oracle>>
          ELSE \E res \in ApiResults :
                 /\ Draw(f, res)
                 /\ IF res.exc = "none"
                    THEN Responded(f, LLMResponse(Str(res.cls)),
                                   <<ApiCall(me.index, req, TRUE)>>)
                    ELSE /\ fr' = [fr EXCEPT ![f] =
                                     [@ EXCEPT !.pc = "call_except",
                                               !.aw = <<>>,
                                               !.log = Append(@, ApiCall(me.index, req, TRUE)),
                                               !.nd = @ + 1]]
                         /\ UNCHANGED hist
       /\ UNCHANGED <<unit, cfg, self, guard_state>>

\* The except branch of Runner.call: the same request without base_model;
\* an exception of this invocation leaves call, step and the run (the frame
\* goes to failpc).
CallExcept(f, failpc) ==
    LET me == Me(f)
        req == CallRequest(me.s_instructions, me.s_prompt, me.s_msg_history)
    IN /\ me.pc = "call_except"
       /\ \E res \in ApiResults :
            /\ Draw(f, res)
            /\ IF res.exc = "none"
               THEN Responded(f, LLMResponse(Str(res.cls)),
                              <<ApiCall(me.index, req, FALSE)>>)
               ELSE /\ fr' = [fr EXCEPT ![f] =
                                [@ EXCEPT !.pc = failpc,
                                          !.aw = <<>>,
                                          !.err = ApiException(me.nd + 1),
                                          !.log = Append(@, ApiCall(me.index, req, FALSE)),
                                          !.nd = @ + 1]]
                    /\ UNCHANGED hist
       /\ UNCHANGED <<unit, cfg, self, guard_state>>

\* The except branch catching the exception of its own invocation and
\* trying again.
StageCallExcept_retries_again(f) == CallExcept(f, "call_except")

\* The except branch swallowing the exception of its own invocation: the
\* run returns.
StageCallExcept_swallows(f) == CallExcept(f, "done")

\* The except branch going on to Introspect after the exception of its own
\* invocation.
StageCallExcept_goes_on(f) == CallExcept(f, "introspect")

\* except Exception: llm_response = call(...) -- outside any handler
StageCallExcept(f) == CallExcept(f, "raised")

\* Validate never skipped.
skip_validate_never(parsed_output, parsing_error) == FALSE

\* parsing_error and isinstance(parsed_output, NonParseableReAsk)
skip_validate(parsed_output, parsing_error) ==
    parsing_error /\ parsed_output.t = "NonParseableReAsk"

\* The Parse stage: Runner.parse, the record of parsed_output, and the test
\* that decides whether Validate runs.
StageParse(f) ==
    LET me == Me(f)
        raw_output == me.llm_response.output
        p == SchemaParse(raw_output)
        skip == skip_validate(p.parsed, p.error)
    IN /\ me.pc = "parse"
       /\ hist' = [hist EXCEPT ![me.gl.h][me.gl.i].parsed_output = p.parsed]
       /\ fr' = [fr EXCEPT ![f] =
                   [@ EXCEPT !.pc = IF skip THEN "introspect" ELSE "validate",
                             !.parsed_output = p.parsed,
                             !.parsing_error = p.error,
                             !.validated_output = None,
                             !.writes = Append(@, "parsed_output"),
                             !.log = Append(@, [op |-> "parse", index |-> me.index,
                                                output |-> raw_output,
                                                schema |-> me.output_schema])]]
       /\ UNCHANGED <<unit, cfg, self, guard_state, oracle>>

\* GuardLogs.set_validated_output
set_validated_output(f, validated_output) ==
    hist' = [hist EXCEPT
               ![Me(f).gl.h][Me(f).gl.i].validated_output = validated_output]

\* Validation merging its updates into the metadata of every runner.
merge_metadata_everywhere(r, updates) ==
    [q \in Runners |-> [self[q] EXCEPT !.metadata = @ \cup updates]]

\* The validators get self.metadata (the runner's own mapping, the
\* caller's or the {} of the constructor) and merge their updates into it.
merge_metadata(r, updates) ==
    [self EXCEPT ![r].metadata = @ \cup updates]

\* The Validate stage: Runner.validate / AsyncRunner.async_validate and the
\* first record of the validated output.
StageValidate(f) ==
    LET me == Me(f)
        validated_output == SchemaValidate(me.parsed_output)
    IN /\ me.pc = "validate"
       /\ set_validated_output(f, validated_output)
       /\ fr' = [fr EXCEPT ![f] =
                   [@ EXCEPT !.pc = "introspect",
                             !.validated_output = validated_output,
                             !.writes = Append(@, "validated_output"),
                             !.aw = <<>>,
                             !.log = Append(@, [op |-> "validate", index |-> me.index,
                                                parsed_output |-> me.parsed_output,
                                                schema |-> me.output_schema])]]
       /\ self' = merge_metadata(me.runner, MetadataUpdates(me.parsed_output))
       /\ UNCHANGED <<unit, cfg, guard_state, oracle>>

\* Runner.introspect
introspect(validated_output) ==
    IF IsNone(validated_output) THEN <<>>
    ELSE SchemaIntrospect(validated_output)

\* The Introspect stage: of the parsed output when Validate was skipped, of
\* the validated output otherwise; the markers are recorded.
StageIntrospect(f) ==
    LET me == Me(f)
        arg == IF skip_validate(me.parsed_output, me.parsing_error)
               THEN me.parsed_output ELSE me.validated_output
        reasks == introspect(arg)
    IN /\ me.pc = "introspect"
       /\ hist' = [hist EXCEPT ![me.gl.h][me.gl.i].reasks = reasks]
       /\ fr' = [fr EXCEPT ![f] =
                   [@ EXCEPT !.pc = "finalize",
                             !.reasks = reasks,
                             !.writes = Append(@, "reasks"),
                             !.log = @ \o (IF IsNone(arg) THEN <<>>
                                           ELSE <<[op |-> "introspect", index |-> me.index,
                                                   arg |-> arg,
                                                   schema |-> me.output_schema]>>)]]
       /\ UNCHANGED <<unit, cfg, self, guard_state, oracle>>

\* The end of step: markers are replaced by fixed values on a terminal
\* step, the validated output is recorded again, and step returns
\* (validated_output or parsed_output, reasks).
Finalize(f, terminal) ==
    LET me == Me(f)
        validated_output ==
            IF terminal
            THEN sub_reasks_with_fixed_values(me.validated_output)
            ELSE me.validated_output
    IN /\ me.pc = "finalize"
       /\ set_validated_output(f, validated_output)
       /\ fr' = [fr EXCEPT ![f] =
                   [@ EXCEPT !.pc = "decide",
                             !.terminal = terminal,
                             !.validated_output = validated_output,
                             !.writes = Append(@, "validated_output"),
                             !.ret = PyOr(validated_output, me.parsed_output)]]
       /\ UNCHANGED <<unit, cfg, self, guard_state, oracle>>

\* The end of step replacing the markers whether or not the loop goes on.
StageFinalize_always_substitutes(f) == Finalize(f, TRUE)

\* The end of step never replacing the markers.
StageFinalize_never_substitutes(f) == Finalize(f, FALSE)

\* if not self.do_loop(index, reasks): ...
StageFinalize(f) == Finalize(f, ~do_loop(Me(f).index, Me(f).reasks))

\* The invocation of output_schema.get_reask_setup in prepare_to_loop.
ReaskSetupCall(reasks, validated_output, output_schema) ==
    [schema |-> output_schema, reasks |-> reasks,
     original_response |-> validated_output,
     use_full_schema |-> cfg.full_schema_reask]

\* prepare_to_loop without the clearing of the message history: the reask
\* goes on with the message history of the runner.
prepare_to_loop_keeps_history(reasks, validated_output, output_schema, include_instructions) ==
    LET call == ReaskSetupCall(reasks, validated_output, output_schema)
        s == get_reask_setup(call.schema, call.reasks, call.original_response,
                             call.use_full_schema)
    IN [prompt |-> s.prompt,
        instructions |-> IF ~include_instructions THEN None
                         ELSE s.instructions,
        output_schema |-> s.output_schema,
        msg_history |-> SelfMsgHistory,
        call |-> call]

\* prepare_to_loop dropping the schema of the reask set-up: the next
\* iteration goes on with the schema of this one.
prepare_to_loop_keeps_schema(reasks, validated_output, output_schema, include_instructions) ==
    LET call == ReaskSetupCall(reasks, validated_output, output_schema)
        s == get_reask_setup(call.schema, call.reasks, call.original_response,
                             call.use_full_schema)
    IN [prompt |-> s.prompt,
        instructions |-> IF ~include_instructions THEN None
                         ELSE s.instructions,
        output_schema |-> output_schema,
        msg_history |-> None,
        call |-> call]

\* Runner.prepare_to_loop -> (prompt, instructions, output_schema,
\* msg_history)
prepare_to_loop(reasks, validated_output, output_schema, include_instructions) ==
    LET call == ReaskSetupCall(reasks, validated_output, output_schema)
        s == get_reask_setup(call.schema, call.reasks, call.original_response,
                             call.use_full_schema)
    IN [prompt |-> s.prompt,
        instructions |-> IF ~include_instructions THEN None
                         ELSE s.instructions,
        output_schema |-> s.output_schema,
        msg_history |-> None,
        call |-> call]

\* The tail of the loop body of __call__ / async_run: break and return the
\* history, or set up the reask and go to the next index of the range.
LoopDecide(f, include_instructions) ==
    LET me == Me(f)
        n == prepare_to_loop(me.reasks, me.ret, me.output_schema,
                             include_instructions)
    IN /\ me.pc = "decide"
       /\ IF ~do_loop(me.index, me.reasks)
          THEN fr' = [fr EXCEPT ![f].pc = "done",
                                ![f].result = self[me.runner].guard_history]
          ELSE fr' = [fr EXCEPT ![f] =
                        [@ EXCEPT !.pc = IF me.index + 1 <= cfg.num_reasks
                                         THEN "step" ELSE "done",
                                  !.result = IF me.index + 1 <= cfg.num_reasks
                                             THEN 0
                                             ELSE self[me.runner].guard_history,
                                  !.index = IF me.index + 1 <= cfg.num_reasks
                                            THEN me.index + 1 ELSE me.index,
                                  !.prompt = n.prompt,
                                  !.instructions = n.instructions,
                                  !.output_schema = n.output_schema,
                                  !.msg_history = n.msg_history,
                                  !.log = Append(@, [op |-> "get_reask_setup", index |-> me.index,
                                                     reasks |-> n.call.reasks,
                                                     original_response |-> n.call.original_response,
                                                     schema |-> n.call.schema,
                                                     use_full_schema |-> n.call.use_full_schema])]]
       /\ UNCHANGED <<unit, cfg, self, hist, guard_state, oracle>>

----------------------------------------------------------------------------
(* The two drivers *)

\* Runner.step and the stages it runs, and the loop body of Runner.__call__
step(f) == IsSync(f) /\ StepBegin(f)
step_prepare(f) == IsSync(f) /\ StagePrepare(f)
call(f) ==
    /\ IsSync(f)
    /\ StageCall(f, "API or output must be provided.",
                 "Prompt or message history must be provided.")
call_except(f) == IsSync(f) /\ StageCallExcept(f)
parse(f) == IsSync(f) /\ StageParse(f)
validate(f) == IsSync(f) /\ StageValidate(f)
step_introspect(f) == IsSync(f) /\ StageIntrospect(f)
step_finalize(f) == IsSync(f) /\ StageFinalize(f)
call_loop(f) == IsSync(f) /\ LoopDecide(f, Me(f).include_instructions)

\* AsyncRunner.async_step and the stages it runs, and the loop body of
\* AsyncRunner.async_run (which calls prepare_to_loop without
\* include_instructions, so with its default False)
async_step(f) == IsAsync(f) /\ StepBegin(f)
async_step_prepare(f) == IsAsync(f) /\ StagePrepare(f)

\* The coroutine of frame f is suspended.
Suspended(f) == Me(f).aw # <<>>

\* An await expression evaluated again while the coroutine is suspended
\* on it: a second operation is put in flight.
Await_again(f, at, op) ==
    /\ IsAsync(f)
    /\ Me(f).pc = at
    /\ fr' = [fr EXCEPT ![f].aw = Append(@, [op |-> op, index |-> Me(f).index])]
    /\ UNCHANGED <<unit, cfg, self, hist, guard_state, oracle>>

\* An await expression: the awaitable is created and the coroutine is
\* suspended on it until its result (or exception) is there.
Await(f, at, op) ==
    /\ IsAsync(f)
    /\ Me(f).pc = at
    /\ ~Suspended(f)
    /\ fr' = [fr EXCEPT ![f].aw = <<[op |-> op, index |-> Me(f).index]>>]
    /\ UNCHANGED <<unit, cfg, self, hist, guard_state, oracle>>

\* async_call reaches one of its three try branches: await api(...,
\* base_model=self.base_model)
InvokesApi(f) ==
    /\ IsNone(Me(f).output)
    /\ cfg.api
    /\ ~IsNone(CallRequest(Me(f).s_instructions, Me(f).s_prompt,
                           Me(f).s_msg_history))

await_api(f) == InvokesApi(f) /\ Await(f, "call", "api")

\* the except branch of async_call: await api(...) without base_model
await_api_retry(f) == Await(f, "call_except", "api")

\* The coroutine suspending in Parse as well.
await_validate_from_parse(f) ==
    \/ Await(f, "parse", "async_validate")
    \/ Await(f, "validate", "async_validate")

\* await output_schema.async_validate(guard_logs, parsed_output,
\* self.metadata)
await_validate(f) == Await(f, "validate", "async_validate")

\* The awaited api has returned or raised (the branches of async_call that
\* do not invoke api do not suspend).
async_call(f) ==
    /\ IsAsync(f)
    /\ InvokesApi(f) => Suspended(f)
    /\ StageCall(f, "Either API or output must be provided.",
                 "Output, prompt or message history must be provided.")
async_call_except(f) == IsAsync(f) /\ Suspended(f) /\ StageCallExcept(f)
async_parse(f) == IsAsync(f) /\ StageParse(f)
async_validate(f) == IsAsync(f) /\ Suspended(f) /\ StageValidate(f)

\* An abandoned run taking the record of its iteration out of the history.
cancel_rolls_back(f) ==
    /\ IsAsync(f)
    /\ Suspended(f)
    /\ fr' = [fr EXCEPT ![f].pc = "cancelled"]
    /\ hist' = [hist EXCEPT ![Me(f).gl.h] = SubSeq(@, 1, Len(@) - 1)]
    /\ UNCHANGED <<unit, cfg, self, guard_state, oracle>>

\* The caller abandons the run (cancels the task) while the coroutine is
\* suspended: CancelledError is a BaseException, no handler of run.py
\* catches it, and nothing of the run executes any more.
cancel(f) ==
    /\ IsAsync(f)
    /\ Suspended(f)
    /\ fr' = [fr EXCEPT ![f].pc = "cancelled"]
    /\ UNCHANGED <<unit, cfg, self, hist, guard_state, oracle>>
async_step_introspect(f) == IsAsync(f) /\ StageIntrospect(f)
async_step_finalize(f) == IsAsync(f) /\ StageFinalize(f)
async_run_loop(f) == IsAsync(f) /\ LoopDecide(f, FALSE)

----------------------------------------------------------------------------
(* One runner, one invocation *)

InitRunner(r, c) == [cls |-> c, guard_history |-> r, metadata |-> {}]

Init ==
    /\ cfg \in Configs \cup FullSchemaConfigs
    /\ \E c \in {"Runner", "AsyncRunner"} :
         self = [r \in Runners |-> InitRunner(r, c)]
    /\ hist = [r \in Runners |-> IF cfg.prior THEN <<OldLogs>> ELSE <<>>]
    /\ guard_state = <<>>
    /\ fr = [f \in Frames |-> NewFrame(f, IF f = 1 THEN "idle" ELSE "absent")]
    /\ oracle = <<>>
    /\ unit = None

\* A frame has ended: it returned the history or an exception left it.
Ended(f) == Me(f).pc \in {"done", "raised"}

Next ==
    \E f \in Frames :
        \/ RunnerCall(f)
        \/ step(f)
        \/ step_prepare(f)
        \/ call(f)
        \/ call_except(f)
        \/ parse(f)
        \/ validate(f)
        \/ step_introspect(f)
        \/ step_finalize(f)
        \/ call_loop(f)
        \/ async_run(f)
        \/ async_step(f)
        \/ async_step_prepare(f)
        \/ async_call(f)
        \/ async_call_except(f)
        \/ async_parse(f)
        \/ async_validate(f)
        \/ async_step_introspect(f)
        \/ async_step_finalize(f)
        \/ async_run_loop(f)
        \/ await_api(f)
        \/ await_api_retry(f)
        \/ await_validate(f)
        \/ cancel(f)

Spec == Init /\ [][Next]_vars

----------------------------------------------------------------------------
(* One invocation that the caller does not abandon.  The run is a single   *)
(* thread of control (a coroutine that is resumed whenever what it awaits  *)
(* is there), and every collaborator invocation returns or raises: a step  *)
(* that can be taken is taken.                                             *)

NextLive ==
    \E f \in Frames :
        \/ RunnerCall(f)
        \/ step(f)
        \/ step_prepare(f)
        \/ call(f)
        \/ call_except(f)
        \/ parse(f)
        \/ validate(f)
        \/ step_introspect(f)
        \/ step_finalize(f)
        \/ call_loop(f)
        \/ async_run(f)
        \/ async_step(f)
        \/ async_step_prepare(f)
        \/ async_call(f)
        \/ async_call_except(f)
        \/ async_parse(f)
        \/ async_validate(f)
        \/ async_step_introspect(f)
        \/ async_step_finalize(f)
        \/ async_run_loop(f)
        \/ await_api(f)
        \/ await_api_retry(f)
        \/ await_validate(f)

SpecLive == Init /\ [][NextLive]_vars /\ WF_vars(NextLive)

----------------------------------------------------------------------------
(* The two drivers on the same inputs: a Runner (frame 1) and an            *)
(* AsyncRunner (frame 2) built from the same arguments; the model client    *)
(* gives the second run, invocation by invocation, the results it gave the  *)
(* first (oracle).  The second run starts when the first has ended.         *)

InitPair ==
    /\ cfg \in Configs
    /\ self = [r \in Runners |->
                 InitRunner(r, IF r = 1 THEN "Runner" ELSE "AsyncRunner")]
    /\ hist = [r \in Runners |-> IF cfg.prior THEN <<OldLogs>> ELSE <<>>]
    /\ guard_state = <<>>
    /\ fr = [f \in Frames |-> NewFrame(f, "idle")]
    /\ oracle = <<>>
    /\ unit = None

NextPair ==
    \/ RunnerCall(1)
    \/ step(1)
    \/ step_prepare(1)
    \/ call(1)
    \/ call_except(1)
    \/ parse(1)
    \/ validate(1)
    \/ step_introspect(1)
    \/ step_finalize(1)
    \/ call_loop(1)
    \/ Ended(1) /\ async_run(2)
    \/ async_step(2)
    \/ async_step_prepare(2)
    \/ async_call(2)
    \/ async_call_except(2)
    \/ async_parse(2)
    \/ async_validate(2)
    \/ async_step_introspect(2)
    \/ async_step_finalize(2)
    \/ async_run_loop(2)
    \/ await_api(2)
    \/ await_api_retry(2)
    \/ await_validate(2)

SpecPair == InitPair /\ [][NextPair]_vars

----------------------------------------------------------------------------
(* One runner invoked twice: the second invocation (frame 2) is made when   *)
(* the first has returned or raised; the model client gives it the results  *)
(* it gave the first.                                                       *)

InitAgain ==
    /\ cfg \in {c \in Configs : c.num_reasks <= MaxReasksAgain}
    /\ \E c \in {"Runner", "AsyncRunner"} :
         self = [r \in Runners |-> InitRunner(r, c)]
    /\ hist = [r \in Runners |-> IF cfg.prior THEN <<OldLogs>> ELSE <<>>]
    /\ guard_state = <<>>
    /\ fr = [f \in Frames |-> NewFrame(1, "idle")]
    /\ oracle = <<>>
    /\ unit = None

NextAgain ==
    \E f \in Frames :
        \/ (f = 2 => Ended(1)) /\ RunnerCall(f)
        \/ step(f)
        \/ step_prepare(f)
        \/ call(f)
        \/ call_except(f)
        \/ parse(f)
        \/ validate(f)
        \/ step_introspect(f)
        \/ step_finalize(f)
        \/ call_loop(f)
        \/ (f = 2 => Ended(1)) /\ async_run(f)
        \/ async_step(f)
        \/ async_step_prepare(f)
        \/ async_call(f)
        \/ async_call_except(f)
        \/ async_parse(f)
        \/ async_validate(f)
        \/ async_step_introspect(f)
        \/ async_step_finalize(f)
        \/ async_run_loop(f)
        \/ await_api(f)
        \/ await_api_retry(f)
        \/ await_validate(f)

SpecAgain == InitAgain /\ [][NextAgain]_vars

----------------------------------------------------------------------------
(* Two independent asynchronous runs on one event loop: two AsyncRunners    *)
(* built from the same arguments, each with its own history, sharing the    *)
(* model client (oracle) and the guard state.  A coroutine runs until it    *)
(* suspends in an await or ends; only then does the other one run.          *)

InitConcurrent ==
    /\ cfg \in {c \in Configs : c.num_reasks <= MaxReasksConcurrent}
    /\ self = [r \in Runners |-> InitRunner(r, "AsyncRunner")]
    /\ hist = [r \in Runners |-> IF cfg.prior THEN <<OldLogs>> ELSE <<>>]
    /\ guard_state = <<>>
    /\ fr = [f \in Frames |-> NewFrame(f, "idle")]
    /\ oracle = <<>>
    /\ unit = None

\* The coroutine of frame f is between two suspension points.
Running(f) ==
    Me(f).pc \notin {"absent", "idle", "done", "raised", "cancelled"}
        /\ ~Suspended(f)

\* The event loop can run frame f: no other coroutine is running.
Scheduled(f) == \A g \in Frames \ {f} : ~Running(g)

NextConcurrent ==
    \E f \in Frames :
        \/ Scheduled(f) /\ async_run(f)
        \/ Scheduled(f) /\ async_step(f)
        \/ Scheduled(f) /\ async_step_prepare(f)
        \/ Scheduled(f) /\ async_call(f)
        \/ Scheduled(f) /\ async_call_except(f)
        \/ Scheduled(f) /\ async_parse(f)
        \/ Scheduled(f) /\ async_validate(f)
        \/ Scheduled(f) /\ async_step_introspect(f)
        \/ Scheduled(f) /\ async_step_finalize(f)
        \/ Scheduled(f) /\ async_run_loop(f)
        \/ Scheduled(f) /\ await_api(f)
        \/ Scheduled(f) /\ await_api_retry(f)
        \/ Scheduled(f) /\ await_validate(f)

SpecConcurrent == InitConcurrent /\ [][NextConcurrent]_vars

----------------------------------------------------------------------------
(* One AsyncRunner invoked twice on one event loop: the second async_run    *)
(* can start while the first is suspended; both work on the attributes of   *)
(* the one runner.                                                          *)

InitShared ==
    /\ cfg \in {c \in Configs : c.num_reasks <= MaxReasksConcurrent}
    /\ self = [r \in Runners |-> InitRunner(r, "AsyncRunner")]
    /\ hist = [r \in Runners |-> IF cfg.prior THEN <<OldLogs>> ELSE <<>>]
    /\ guard_state = <<>>
    /\ fr = [f \in Frames |-> NewFrame(1, "idle")]
    /\ oracle = <<>>
    /\ unit = None

NextShared ==
    \E f \in Frames :
        \/ Scheduled(f) /\ async_run(f)
        \/ Scheduled(f) /\ async_step(f)
        \/ Scheduled(f) /\ async_step_prepare(f)
        \/ Scheduled(f) /\ async_call(f)
        \/ Scheduled(f) /\ async_call_except(f)
        \/ Scheduled(f) /\ async_parse(f)
        \/ Scheduled(f) /\ async_validate(f)
        \/ Scheduled(f) /\ async_step_introspect(f)
        \/ Scheduled(f) /\ async_step_finalize(f)
        \/ Scheduled(f) /\ async_run_loop(f)
        \/ Scheduled(f) /\ await_api(f)
        \/ Scheduled(f) /\ await_api_retry(f)
        \/ Scheduled(f) /\ await_validate(f)

SpecShared == InitShared /\ [][NextShared]_vars

----------------------------------------------------------------------------
(* Validators (src/guardrails/validators.py), each applied on its own      *)
(*                                                                         *)
(* A str is the sequence of its characters, a list the sequence of its     *)
(* elements.  unit.value is the object the caller passed as value, as it   *)
(* is now; unit.before is what it was when validate was called.            *)

\* Longest explored length bound of ValidLength; inputs are one longer.
MaxLen == 2

Text(s) == [t |-> "text", s |-> s]
List(s) == [t |-> "list", s |-> s]
PyInt(n) == [t |-> "int", n |-> n]

PassResult == [t |-> "PassResult"]
FailResult(msg, fix) ==
    [t |-> "FailResult", error_message |-> msg, fix_value |-> fix]
IndexError == [t |-> "IndexError"]

\* The characters of the texts explored, and what rstr.rstr draws from.
Chars == {"a", "b"}

SeqsUpTo(S, n) == UNION {[1..k -> S] : k \in 0..n}
Repeat(x, n) == [i \in 1..n |-> x]

\* The runner variables of a state in which no runner exists.
NoRunner ==
    /\ cfg = [num_reasks |-> 0, api |-> FALSE, prompt |-> FALSE,
              instructions |-> FALSE, msg_history |-> FALSE, output |-> None,
              missing_keys |-> <<>>, prior |-> FALSE,
              full_schema_reask |-> FALSE]
    /\ self = [r \in Runners |-> InitRunner(r, "Runner")]
    /\ hist = [r \in Runners |-> <<>>]
    /\ guard_state = <<>>
    /\ fr = [f \in Frames |-> NewFrame(f, "absent")]
    /\ oracle = <<>>

\* validate(value, metadata) of validator v is about to be called.
Ready(fn, v, value) ==
    [pc |-> "ready", fn |-> fn, validator |-> v, value |-> value,
     before |-> value, outcome |-> None]

\* validate returned res.outcome and left the value object as res.value.
Return(res) ==
    /\ unit' = [unit EXCEPT !.pc = "returned", !.value = res.value,
                            !.outcome = res.outcome]
    /\ UNCHANGED <<cfg, self, hist, guard_state, fr, oracle>>

LengthMessage(kind, v) == [kind |-> kind, min |-> v.min, max |-> v.max]

\* ValidLength.validate; rnd is the character rstr.rstr draws.  For a list
\* list.extend pads the list that was passed and returns None.
ValidLength_validate(v, value, rnd) ==
    LET n == Len(value.s)
    IN  IF ~IsNone(v.min) /\ n < v.min.n
        THEN IF value.t = "text"
             THEN LET last_val == IF n = 0 THEN rnd ELSE value.s[n]
                      corrected_value ==
                          Text(value.s \o Repeat(last_val, v.min.n - n))
                  IN  [outcome |-> FailResult(LengthMessage("less than", v),
                                              corrected_value),
                       value |-> value]
             ELSE LET last_val ==
                          List(<<IF n = 0 THEN Text(<<rnd>>) ELSE value.s[n]>>)
                  IN  [outcome |-> FailResult(LengthMessage("less than", v),
                                              None),
                       value |-> List(value.s
                                        \o Repeat(last_val, v.min.n - n))]
        ELSE IF ~IsNone(v.max) /\ n > v.max.n
        THEN [outcome |-> FailResult(LengthMessage("greater than", v),
                    [value EXCEPT !.s = SubSeq(@, 1, v.max.n)]),
              value |-> value]
        ELSE [outcome |-> PassResult, value |-> value]

\* EndsWith.validate
EndsWith_validate(v, value) ==
    IF value.s = <<>>
    THEN [outcome |-> IndexError, value |-> value]
    ELSE IF ~(value.s[Len(value.s)] = v.end)
    THEN [outcome |-> FailResult([kind |-> "must end with", value |-> value,
                                  end |-> v.end],
                                 List(value.s \o <<v.end>>)),
          value |-> value]
    ELSE [outcome |-> PassResult, value |-> value]

\* Largest explored bound of ValidRange; values go one beyond it.
MaxBound == 2

\* The number h/2 of Python type ty ("int" or "float"); an int has an even h.
Num(ty, h) == [t |-> ty, h |-> h]

\* int(x) truncates towards zero.
Truncate(h) == IF h >= 0 THEN h - (h % 2) ELSE 0 - ((0 - h) - ((0 - h) % 2))

\* val_type(bound) with val_type = type(value)
val_type(ty, bound) ==
    IF ty = "int" THEN Num("int", Truncate(bound.h)) ELSE Num("float", bound.h)

RangeMessage(kind, value, bound) ==
    [kind |-> kind, value |-> value, bound |-> bound]

ValidRange_validate_exclusive(v, value) ==
    IF ~IsNone(v.min) /\ value.h <= val_type(value.t, v.min).h
    THEN [outcome |-> FailResult(RangeMessage("less than", value, v.min), v.min), value |-> value]
    ELSE IF ~IsNone(v.max) /\ value.h >= val_type(value.t, v.max).h
    THEN [outcome |-> FailResult(RangeMessage("greater than", value, v.max), v.max), value |-> value]
    ELSE [outcome |-> PassResult, value |-> value]

\* ValidRange.validate
ValidRange_validate(v, value) ==
    IF ~IsNone(v.min) /\ value.h < val_type(value.t, v.min).h
    THEN [outcome |-> FailResult(RangeMessage("less than", value, v.min),
                                 v.min),
          value |-> value]
    ELSE IF ~IsNone(v.max) /\ value.h > val_type(value.t, v.max).h
    THEN [outcome |-> FailResult(RangeMessage("greater than", value, v.max),
                                 v.max),
          value |-> value]
    ELSE [outcome |-> PassResult, value |-> value]

\* min and max are ints or absent: Optional[int] in ValidRange.__init__ .
RangeBounds == {None} \cup {Num("int", 2 * n) : n \in 0..MaxBound}
\* The integers and the floats (in steps of one half) from -1 to MaxBound + 1.
RangeHalves == (0 - 2)..(2 * (MaxBound + 1))
RangeInputs ==
    {Num("int", h) : h \in {k \in RangeHalves : k % 2 = 0}}
        \cup {Num("float", h) : h \in RangeHalves}

LengthBounds == {None} \cup {PyInt(n) : n \in 0..MaxLen}
LengthInputs ==
    {Text(s) : s \in SeqsUpTo(Chars, MaxLen + 1)}
        \cup {List(s) : s \in SeqsUpTo({Text(<<c>>) : c \in Chars}, MaxLen + 1)}
ListInputs == {x \in LengthInputs : x.t = "list"}

\* Most sentences of a text given to CompetitorCheck.
MaxSentences == 2

\* str.lower(), character by character.
LowerChar(c) == IF c = "B" THEN "b" ELSE IF c = "A" THEN "a" ELSE c
lower(s) == [i \in 1..Len(s) |-> LowerChar(s[i])]

\* \b : position k of t (between t[k-1] and t[k]) has a word character on
\* exactly one side; the blank is the only non-word character explored.
IsWordChar(t, j) == j \in 1..Len(t) /\ t[j] # " "
WordBoundary(t, k) == IsWordChar(t, k - 1) # IsWordChar(t, k)

\* re.search(rf"\b{re.escape(entity)}\b".lower(), text.lower()) finds a match
re_search(entity, text) ==
    LET p == lower(entity)
        t == lower(text)
    IN  \E i \in 1..(Len(t) - Len(p) + 1) :
            /\ SubSeq(t, i, i + Len(p) - 1) = p
            /\ WordBoundary(t, i)
            /\ WordBoundary(t, i + Len(p))

\* [item for item in items if re.search(item, text)], in the order of items
RECURSIVE Matching(_, _)
Matching(items, text) ==
    IF items = <<>> THEN <<>>
    ELSE (IF re_search(Head(items), text) THEN <<Head(items)>> ELSE <<>>)
            \o Matching(Tail(items), text)

\* CompetitorCheck.exact_match
exact_match(text, competitors) == Matching(competitors, text)

\* An entity of a document: a span of the text and its label.
Span(text) == [text |-> text, label_ |-> "ORG"]

\* for ent in doc.ents: entities.append(ent.text), from the k-th entity on
RECURSIVE CollectTexts(_, _, _)
CollectTexts(ents, k, entities) ==
    IF k > Len(ents) THEN entities
    ELSE CollectTexts(ents, k + 1, Append(entities, ents[k].text))

\* perform_ner returning each entity text once.
perform_ner_distinct(nlp, i) ==
    LET t == CollectTexts(nlp[i].ents, 1, <<>>)
        keep == {k \in 1..Len(t) : \A j \in 1..(k - 1) : t[j] # t[k]}
    IN  [n \in 1..Cardinality(keep) |->
            t[CHOOSE k \in keep : Cardinality({j \in keep : j <= k}) = n]]

\* CompetitorCheck.perform_ner on the i-th sentence: doc = nlp(text), then
\* the texts of doc.ents.
perform_ner(nlp, i) == CollectTexts(nlp[i].ents, 1, <<>>)

is_entity_in_list_ignores_entities(entities, competitors) == competitors

\* CompetitorCheck.is_entity_in_list
RECURSIVE is_entity_in_list(_, _)
is_entity_in_list(entities, competitors) ==
    IF entities = <<>> THEN <<>>
    ELSE Matching(competitors, Head(entities))
            \o is_entity_in_list(Tail(entities), competitors)

\* " ".join(strings)
RECURSIVE Join(_)
Join(strings) ==
    IF strings = <<>> THEN <<>>
    ELSE IF Len(strings) = 1 THEN Head(strings)
    ELSE Head(strings) \o <<" ">> \o Join(Tail(strings))

\* The loop of CompetitorCheck.validate from sentence i on; acc holds
\* filtered_sentences and list_of_competitors_found (flagged_sentences has
\* one entry for each entry of the latter).
RECURSIVE ForSentences(_, _, _, _)
ForSentences(v, sentences, i, acc) ==
    IF i > Len(sentences) THEN acc
    ELSE LET sentence == sentences[i]
             entities == exact_match(sentence, v.competitors)
             ner_entities == perform_ner(v.nlp, i)
             found_competitors == is_entity_in_list(ner_entities, entities)
         IN  IF entities # <<>> /\ found_competitors # <<>>
             THEN ForSentences(v, sentences, i + 1,
                    [acc EXCEPT !.found = Append(@, found_competitors)])
             ELSE ForSentences(v, sentences, i + 1,
                    [acc EXCEPT !.filtered = Append(@, sentence)])

\* CompetitorCheck.validate; value is the text as nltk.sent_tokenize splits
\* it, a list of sentences.
CompetitorCheck_validate(v, value) ==
    LET acc == ForSentences(v, value.s, 1, [filtered |-> <<>>, found |-> <<>>])
    IN  IF Len(acc.found) # 0
        THEN [outcome |-> FailResult([kind |-> "found competitors",
                                      found |-> acc.found],
                                     Text(Join(acc.filtered))),
              value |-> value]
        ELSE [outcome |-> PassResult, value |-> value]

\* Competitor names, sentences and entity lists explored.
Names == {<<"a">>, <<"B">>}
Sentences == {<<"a">>, <<"a", "b">>, <<"B", " ", "a">>, <<"b", " ", "b">>}
EntityLists ==
    {<<>>, <<<<"b">>>>, <<<<"A", " ", "b">>, <<"a">>>>,
     <<<<"a">>, <<"c">>, <<"a">>>>}
\* What nlp(text) returns: a document with its entities.
Docs == {[ents |-> [k \in 1..Len(e) |-> Span(e[k])]] : e \in EntityLists}
CompetitorInputs == {List(s) : s \in SeqsUpTo(Sentences, MaxSentences)}

Calling(fn) == unit.pc = "ready" /\ unit.fn = fn

CompetitorCheck_call ==
    /\ Calling("CompetitorCheck.validate")
    /\ Return(CompetitorCheck_validate(unit.validator, unit.value))

\* validator.perform_ner(text, nlp) called on its own, as the unit test does
perform_ner_call ==
    /\ Calling("CompetitorCheck.perform_ner")
    /\ Return([outcome |-> List(perform_ner(unit.validator.nlp, 1)),
               value |-> unit.value])

ValidLength_call ==
    /\ Calling("ValidLength.validate")
    /\ \E rnd \in Chars :
         Return(ValidLength_validate(unit.validator, unit.value, rnd))

ValidRange_call ==
    /\ Calling("ValidRange.validate")
    /\ Return(ValidRange_validate(unit.validator, unit.value))

EndsWith_call ==
    /\ Calling("EndsWith.validate")
    /\ Return(EndsWith_validate(unit.validator, unit.value))

InitValidators ==
    /\ NoRunner
    /\ \/ \E min \in RangeBounds, max \in RangeBounds, x \in RangeInputs :
            unit = Ready("ValidRange.validate", [min |-> min, max |-> max], x)
       \/ \E min \in LengthBounds, max \in LengthBounds, x \in LengthInputs :
            unit = Ready("ValidLength.validate", [min |-> min, max |-> max], x)
       \/ \E end \in Chars, x \in ListInputs :
            unit = Ready("EndsWith.validate", [end |-> Text(<<end>>)], x)
       \/ \E competitors \in SeqsUpTo(Names, 2), x \in CompetitorInputs :
            \E nlp \in [1..Len(x.s) -> Docs] :
                unit = Ready("CompetitorCheck.validate",
                             [competitors |-> competitors, nlp |-> nlp], x)
       \/ \E competitors \in SeqsUpTo(Names, 2), text \in Sentences :
            \E nlp \in [1..1 -> Docs] :
                unit = Ready("CompetitorCheck.perform_ner",
                             [competitors |-> competitors, nlp |-> nlp],
                             List(<<text>>))

NextValidators ==
    \/ ValidRange_call
    \/ ValidLength_call
    \/ EndsWith_call
    \/ CompetitorCheck_call
    \/ perform_ner_call

SpecValidators == InitValidators /\ [][NextValidators]_vars

----------------------------------------------------------------------------
(* The validators that document a programmatic fix, each applied to an     *)
(* input and then, when it fails, to its own fix value                     *)

\* The characters of the texts explored: a lower-case and an upper-case
\* letter, the blank and the line feed.
TextChars == {"a", "B", " ", "\n"}

TypeError == [t |-> "TypeError"]

UpperChar(c) == IF c = "a" THEN "A" ELSE IF c = "b" THEN "B" ELSE c
upper(s) == [i \in 1..Len(s) |-> UpperChar(s[i])]

\* str.split() from position i on: the maximal runs of characters that are
\* not whitespace; word is the run being read.
RECURSIVE SplitFrom(_, _, _, _)
SplitFrom(s, i, word, acc) ==
    LET closed == IF word = <<>> THEN acc ELSE Append(acc, word)
    IN  IF i > Len(s) THEN closed
        ELSE IF s[i] \in {" ", "\n"} THEN SplitFrom(s, i + 1, <<>>, closed)
        ELSE SplitFrom(s, i + 1, Append(word, s[i]), acc)

split(s) == SplitFrom(s, 1, <<>>, <<>>)

\* str.splitlines() from position i on: the lines the line feeds end; a
\* line feed at the end of the text does not begin another line.
RECURSIVE SplitLinesFrom(_, _, _, _)
SplitLinesFrom(s, i, line, acc) ==
    IF i > Len(s) THEN (IF line = <<>> THEN acc ELSE Append(acc, line))
    ELSE IF s[i] = "\n" THEN SplitLinesFrom(s, i + 1, <<>>, Append(acc, line))
    ELSE SplitLinesFrom(s, i + 1, Append(line, s[i]), acc)

splitlines(s) == SplitLinesFrom(s, 1, <<>>, <<>>)

\* " ".join(words)
RECURSIVE JoinWords(_)
JoinWords(words) ==
    IF words = <<>> THEN <<>>
    ELSE IF Len(words) = 1 THEN words[1]
    ELSE words[1] \o <<" ">> \o JoinWords(Tail(words))

\* LowerCase.validate
LowerCase_validate(v, value) ==
    IF lower(value.s) # value.s
    THEN [outcome |-> FailResult([kind |-> "not lower case", value |-> value],
                                 Text(lower(value.s))),
          value |-> value]
    ELSE [outcome |-> PassResult, value |-> value]

\* UpperCase.validate
UpperCase_validate(v, value) ==
    IF upper(value.s) # value.s
    THEN [outcome |-> FailResult([kind |-> "not upper case", value |-> value],
                                 Text(upper(value.s))),
          value |-> value]
    ELSE [outcome |-> PassResult, value |-> value]

\* TwoWords.validate
TwoWords_validate(v, value) ==
    IF Len(split(value.s)) # 2
    THEN [outcome |-> FailResult([kind |-> "must be exactly two words"],
                                 Text(JoinWords(SubSeq(split(value.s), 1,
                                        IF Len(split(value.s)) < 2
                                        THEN Len(split(value.s)) ELSE 2)))),
          value |-> value]
    ELSE [outcome |-> PassResult, value |-> value]

\* OneLine.validate
OneLine_validate(v, value) ==
    IF Len(splitlines(value.s)) > 1
    THEN [outcome |-> FailResult([kind |-> "not a single line", value |-> value],
                                 Text(splitlines(value.s)[1])),
          value |-> value]
    ELSE [outcome |-> PassResult, value |-> value]

\* The validators of this section and their validate.
Fixing ==
    {"ValidRange.validate", "ValidLength.validate", "LowerCase.validate",
     "UpperCase.validate", "TwoWords.validate", "OneLine.validate"}

\* validate of the validator fn applied to value; len(None) in
\* ValidLength.validate raises TypeError.
Validate(fn, v, value, rnd) ==
    CASE fn = "ValidRange.validate" -> ValidRange_validate(v, value)
      [] fn = "ValidLength.validate" ->
            IF IsNone(value) THEN [outcome |-> TypeError, value |-> value]
            ELSE ValidLength_validate(v, value, rnd)
      [] fn = "LowerCase.validate" -> LowerCase_validate(v, value)
      [] fn = "UpperCase.validate" -> UpperCase_validate(v, value)
      [] fn = "TwoWords.validate" -> TwoWords_validate(v, value)
      [] fn = "OneLine.validate" -> OneLine_validate(v, value)

TextInputs == {Text(s) : s \in SeqsUpTo(TextChars, MaxLen + 1)}

LowerCase_call ==
    /\ Calling("LowerCase.validate")
    /\ Return(LowerCase_validate(unit.validator, unit.value))

UpperCase_call ==
    /\ Calling("UpperCase.validate")
    /\ Return(UpperCase_validate(unit.validator, unit.value))

TwoWords_call ==
    /\ Calling("TwoWords.validate")
    /\ Return(TwoWords_validate(unit.validator, unit.value))

OneLine_call ==
    /\ Calling("OneLine.validate")
    /\ Return(OneLine_validate(unit.validator, unit.value))

\* The validator that failed is applied to the fix value of its outcome.
validate_fix ==
    /\ unit.pc = "returned"
    /\ unit.fn \in Fixing
    /\ unit.outcome.t = "FailResult"
    /\ \E rnd \in Chars :
         unit' = [pc |-> "revalidated", fn |-> unit.fn,
                  validator |-> unit.validator, value |-> unit.value,
                  before |-> unit.before, outcome |-> unit.outcome,
                  again |-> Validate(unit.fn, unit.validator,
                                     unit.outcome.fix_value, rnd).outcome]
    /\ UNCHANGED <<cfg, self, hist, guard_state, fr, oracle>>

InitFixes ==
    /\ NoRunner
    /\ \/ \E min \in RangeBounds, max \in RangeBounds, x \in RangeInputs :
            unit = Ready("ValidRange.validate", [min |-> min, max |-> max], x)
       \/ \E min \in LengthBounds, max \in LengthBounds, x \in LengthInputs :
            unit = Ready("ValidLength.validate", [min |-> min, max |-> max], x)
       \/ \E fn \in {"LowerCase.validate", "UpperCase.validate",
                      "TwoWords.validate", "OneLine.validate"} :
            \E x \in TextInputs : unit = Ready(fn, None, x)

NextFixes ==
    \/ ValidRange_call
    \/ ValidLength_call
    \/ LowerCase_call
    \/ UpperCase_call
    \/ TwoWords_call
    \/ OneLine_call
    \/ validate_fix

SpecFixes == InitFixes /\ [][NextFixes]_vars

----------------------------------------------------------------------------
(* The message history as objects: the caller's list of dicts, the copies  *)
(* the runner takes of it, and the assignments msg["content"] = ... made   *)
(* in place on dicts.  A list is the sequence of the addresses of its      *)
(* dicts in heap.                                                          *)

\* Most dicts in the caller's list, and most invocations of the runner.
MaxMessages == 2
MaxCalls == 3

\* The content of a message: the caller's str, the Prompt the constructor
\* makes of it, the formatted Prompt, and the source str of a Prompt.
Content(c) == [t |-> "str", text |-> c, fmt |-> FALSE]
AsPrompt(c) == [t |-> "Prompt", text |-> c.text, fmt |-> c.fmt]
format(c) == [c EXCEPT !.fmt = TRUE]
source(c) == [t |-> "str", text |-> c.text, fmt |-> c.fmt]

Messages == {[role |-> r, content |-> Content(c)] :
                r \in {"system", "user"}, c \in Chars}

\* self.msg_history and the msg_history of step when they are None (for
\* the tests `if msg_history:` the same as an empty list).
NoList == <<>>

\* The dicts of list l as they are in heap.
Deref(heap, l) == [i \in 1..Len(l) |-> heap[l[i]]]

\* No copy: the list itself.
deepcopy_shares(heap, l) == [heap |-> heap, list |-> l]

\* copy.deepcopy(msg_history): a new list of new dicts with the same
\* items.
deepcopy(heap, l) ==
    [heap |-> heap \o Deref(heap, l),
     list |-> [i \in 1..Len(l) |-> Len(heap) + i]]

\* for msg in l: msg["content"] = <new content>
SetContents(heap, l, new) ==
    [a \in DOMAIN heap |->
        IF \E i \in 1..Len(l) : l[i] = a
        THEN [heap[a] EXCEPT !.content = new[a]]
        ELSE heap[a]]

\* Runner.__init__ (msg_history): a deep copy whose contents become
\* Prompts, or None for an empty list.
Runner_init ==
    /\ unit.pc = "new"
    /\ IF unit.caller = <<>>
       THEN unit' = [unit EXCEPT !.pc = "built"]
       ELSE LET c == deepcopy(unit.heap, unit.caller)
                h == SetContents(c.heap, c.list,
                                 [a \in DOMAIN c.heap |-> AsPrompt(c.heap[a].content)])
            IN  unit' = [unit EXCEPT !.pc = "built", !.heap = h,
                                     !.self_msg_history = c.list,
                                     !.stored = Deref(h, c.list)]
    /\ UNCHANGED <<cfg, self, hist, guard_state, fr, oracle>>

\* Prepare of iteration 0 of an invocation (msg_history branch): a deep
\* copy of self.msg_history whose contents are formatted; step records it.
prepare_msg_history ==
    /\ unit.pc = "built"
    /\ unit.self_msg_history # NoList
    /\ unit.calls < MaxCalls
    /\ LET c == deepcopy(unit.heap, unit.self_msg_history)
           h == SetContents(c.heap, c.list,
                            [a \in DOMAIN c.heap |-> format(c.heap[a].content)])
       IN  unit' = [unit EXCEPT !.pc = "prepared", !.heap = h,
                                !.msg_history = c.list,
                                !.recorded = Deref(h, c.list)]
    /\ UNCHANGED <<cfg, self, hist, guard_state, fr, oracle>>

\* Call: api(msg_history=msg_history_source(msg_history)), a deep copy
\* whose contents are replaced by their sources.
call_msg_history ==
    /\ unit.pc = "prepared"
    /\ LET c == deepcopy(unit.heap, unit.msg_history)
           h == SetContents(c.heap, c.list,
                            [a \in DOMAIN c.heap |-> source(c.heap[a].content)])
       IN  unit' = [unit EXCEPT !.pc = "built", !.heap = h,
                                !.calls = @ + 1,
                                !.sent = Append(@, Deref(h, c.list))]
    /\ UNCHANGED <<cfg, self, hist, guard_state, fr, oracle>>

InitHistory ==
    /\ NoRunner
    /\ \E given \in SeqsUpTo(Messages, MaxMessages) :
         unit = [pc |-> "new", heap |-> given,
                 caller |-> [i \in 1..Len(given) |-> i], given |-> given,
                 self_msg_history |-> NoList, stored |-> <<>>,
                 msg_history |-> NoList, recorded |-> <<>>,
                 sent |-> <<>>, calls |-> 0]

NextHistory ==
    \/ Runner_init
    \/ prepare_msg_history
    \/ call_msg_history

SpecHistory == InitHistory /\ [][NextHistory]_vars

----------------------------------------------------------------------------
(* The substitution of a terminal iteration on its own: step replaces the  *)
(* validated value by sub_reasks_with_fixed_values of it and records that; *)
(* the recorded value is then substituted once more, or introspected.      *)

\* Most children of an object or a list explored.
MaxWidth == 2

\* Validated structures: plain values and markers, objects and lists of
\* those, and objects and lists of all of these.
Leaves == {Value("good"), ReAskOf(Value("bad"))}
Containers(kids) ==
    {Nested(t, s) : t \in {"object", "list"}, s \in SeqsUpTo(kids, MaxWidth)}
Structures == Leaves \cup Containers(Leaves \cup Containers(Leaves))

\* What step may hold as validated_output when it comes to line 259: None
\* (Validate was skipped), what the schema made of the classes of responses
\* of the runs above, any structure, or a NonParseableReAsk.
ValidatedOutputs ==
    {None, NonParseableReAsk}
        \cup {SchemaValidate(SchemaParse(Str(c)).parsed) : c \in ApiClasses}
        \cup Structures

Substituting(v) ==
    [pc |-> "ready", fn |-> "sub_reasks_with_fixed_values", value |-> v,
     before |-> v, outcome |-> None, again |-> None, reasks |-> <<>>]

step_substitute_skips ==
    /\ Calling("sub_reasks_with_fixed_values")
    /\ unit' = [unit EXCEPT !.pc = "substituted", !.outcome = unit.value]
    /\ UNCHANGED <<cfg, self, hist, guard_state, fr, oracle>>

\* step on a terminal iteration: validated_output =
\* sub_reasks_with_fixed_values(validated_output), then recorded.
step_substitute ==
    /\ Calling("sub_reasks_with_fixed_values")
    /\ unit' = [unit EXCEPT !.pc = "substituted",
                            !.outcome = sub_reasks_with_fixed_values(unit.value)]
    /\ UNCHANGED <<cfg, self, hist, guard_state, fr, oracle>>

\* The recorded value substituted again.
substitute_again ==
    /\ unit.pc = "substituted"
    /\ unit' = [unit EXCEPT !.pc = "substituted again",
                            !.again = sub_reasks_with_fixed_values(unit.outcome)]
    /\ UNCHANGED <<cfg, self, hist, guard_state, fr, oracle>>

\* Runner.introspect of the recorded value.
introspect_recorded ==
    /\ unit.pc = "substituted"
    /\ unit' = [unit EXCEPT !.pc = "introspected",
                            !.reasks = introspect(unit.outcome)]
    /\ UNCHANGED <<cfg, self, hist, guard_state, fr, oracle>>

InitSubstitute ==
    /\ NoRunner
    /\ \E v \in ValidatedOutputs : unit = Substituting(v)

NextSubstitute ==
    \/ step_substitute
    \/ substitute_again
    \/ introspect_recorded

SpecSubstitute == InitSubstitute /\ [][NextSubstitute]_vars

----------------------------------------------------------------------------
(* Properties *)

Active(f) == Me(f).pc \notin {"absent", "idle"}

\* The history the runner of frame f holds.
RunHistory(f) == hist[self[Me(f).runner].guard_history]

\* C1: the history a run returns holds at most num_reasks + 1 records, and
\* holds num_reasks + 1 only if every iteration before the last left a
\* non-empty list of markers.
C1_HistoryWithinBudget ==
    \A f \in Frames :
        Me(f).pc = "done" =>
            LET H == hist[Me(f).result]
                b == cfg.num_reasks
            IN /\ Len(H) <= b + 1
               /\ Len(H) = b + 1 => \A i \in 1..b : H[i].reasks # <<>>

C1_Witness ==
    \E f \in Frames :
        /\ Me(f).pc = "done"
        /\ cfg.num_reasks >= 2
        /\ Len(hist[Me(f).result]) = cfg.num_reasks + 1

\* An iteration of frame f has found no markers.
CleanIteration(f) ==
    Me(f).pc \in {"finalize", "decide", "done"} /\ Me(f).reasks = <<>>

\* C2: once an iteration's introspection has returned no markers, nothing
\* follows it but the end of the run: no record is added, no collaborator
\* (model client, reask set-up) is invoked, the index does not move; and a
\* returned history whose first record has no markers has one record.
C2_StopsAtFirstCleanIteration ==
    /\ [](\A f \in Frames :
            (Me(f).pc = "done" /\ hist[Me(f).result][1].reasks = <<>>)
                => Len(hist[Me(f).result]) = 1)
    /\ [][\A f \in Frames :
            CleanIteration(f) =>
                /\ fr'[f].pc \in {"decide", "done"}
                /\ fr'[f].log = fr[f].log
                /\ fr'[f].nd = fr[f].nd
                /\ fr'[f].index = fr[f].index
                /\ Len(RunHistory(f)') = Len(RunHistory(f))]_vars

C2_Witness ==
    \E f \in Frames :
        /\ Me(f).pc = "done"
        /\ cfg.num_reasks = MaxReasks
        /\ Me(f).nd > 0
        /\ Len(hist[Me(f).result]) = 1
        /\ hist[Me(f).result][1].reasks = <<>>

\* The invocations of the model client frame f has made.
ApiLog(f) == SelectSeq(Me(f).log, LAMBDA e : e.op = "api")

\* C3: with a required metadata key missing the run does nothing but raise
\* the error that names the missing keys; the model client is not invoked.
C3_MissingKeyIsFatalBeforeAnyCall ==
    \A f \in Frames :
        (Active(f) /\ cfg.missing_keys # <<>>) =>
            /\ Me(f).pc = "raised"
            /\ Me(f).err = ValueError("Missing required metadata keys",
                                      cfg.missing_keys)
            /\ ApiLog(f) = <<>>
            /\ Me(f).nd = 0
            /\ oracle = <<>>

C3_Witness ==
    \E f \in Frames :
        /\ IsAsync(f)
        /\ cfg.missing_keys = <<"k1", "k2">>
        /\ Me(f).pc = "raised"

\* C4 (as claimed): the missing-key error is raised before the history is
\* reset: the runner still holds the history object it was constructed
\* with, with its records, and nothing has been pushed onto guard_state.
C4_RaisesBeforeReset ==
    \A f \in Frames :
        (Me(f).pc = "raised" /\ cfg.missing_keys # <<>>) =>
            /\ self[Me(f).runner].guard_history = Me(f).runner
            /\ RunHistory(f) = (IF cfg.prior THEN <<OldLogs>> ELSE <<>>)
            /\ guard_state = <<>>

\* C5 (as claimed): built from the same arguments and given the same
\* results by the model client, the Runner (frame 1) and the AsyncRunner
\* (frame 2) end the same way, have made the same collaborator invocations
\* with the same arguments, and return equal histories.
C5_DriversAgree ==
    (Ended(1) /\ Ended(2)) =>
        /\ fr[1].pc = fr[2].pc
        /\ fr[1].log = fr[2].log
        /\ fr[1].pc = "done" => hist[fr[1].result] = hist[fr[2].result]

\* Frame f is inside step (or async_step).
InStep(f) ==
    Me(f).pc \in {"prepare", "call", "call_except", "parse", "validate",
                  "introspect", "finalize", "decide"}

\* C6: every iteration after the first works with a prompt of the reask
\* set-up and with no message history: in the loop variables, in what
\* Prepare and Call get, in what is sent to the model client and in the
\* record of the iteration.
C6_ReaskHasNoMessageHistory ==
    \A f \in Frames :
        Active(f) =>
            /\ Me(f).index >= 1 =>
                  /\ IsNone(Me(f).msg_history)
                  /\ Me(f).prompt.t = "Prompt" /\ Me(f).prompt.src = "reask"
                  /\ InStep(f) => IsNone(Me(f).s_msg_history)
            /\ \A i \in 2..Len(RunHistory(f)) :
                  IsNone(RunHistory(f)[i].msg_history)
            /\ \A k \in 1..Len(ApiLog(f)) :
                  ApiLog(f)[k].index >= 1 =>
                      /\ IsNone(ApiLog(f)[k].msg_history)
                      /\ ApiLog(f)[k].prompt.src = "reask"

C6_Witness ==
    \E f \in Frames :
        /\ cfg.msg_history
        /\ Me(f).pc = "done"
        /\ Len(RunHistory(f)) >= 2
        /\ \E k \in 1..Len(ApiLog(f)) : ApiLog(f)[k].index >= 1

\* C7: in one iteration the model client is invoked at most twice: the
\* first invocation passes base_model; a second one is made exactly when
\* the first raised, with the same request and without base_model; there
\* is no third, and only the caller abandoning the run keeps the second
\* from being made.  (The k-th invocation of a frame gets oracle[k].)
C7_AtMostOneRetry ==
    \A f \in Frames :
        LET A == ApiLog(f)
        IN /\ Len(A) = Me(f).nd
           /\ \A k \in 1..Len(A) :
                LET second == k > 1 /\ A[k-1].index = A[k].index
                IN /\ A[k].base_model = ~second
                   /\ second =>
                        /\ oracle[k-1].exc # "none"
                        /\ A[k] = [A[k-1] EXCEPT !.base_model = FALSE]
                        /\ k > 2 => A[k-2].index # A[k].index
                   /\ (A[k].base_model /\ oracle[k].exc # "none") =>
                        IF k = Len(A)
                        THEN \/ Me(f).pc = "call_except"
                             \/ /\ Me(f).pc = "cancelled"
                                /\ Me(f).aw[1].op = "api"
                        ELSE A[k+1].index = A[k].index

C7_Witness ==
    \E f \in Frames :
        LET A == ApiLog(f)
        IN /\ Len(A) >= 4
           /\ A[1].index = 0 /\ A[2].index = 0
           /\ A[3].index = 1 /\ oracle[3].exc = "none"
           /\ A[4].index = 2

\* The record of an iteration that got the raw text raw at index index:
\* what Parse, Validate, Introspect and the end of step make of raw.
NormalRecord(rec, raw, index) ==
    LET p == SchemaParse(raw)
        skip == p.error /\ p.parsed.t = "NonParseableReAsk"
        v == IF skip THEN None ELSE SchemaValidate(p.parsed)
        reasks == IF skip THEN <<p.parsed>>
                  ELSE IF IsNone(v) THEN <<>> ELSE SchemaIntrospect(v)
        terminal == reasks = <<>> \/ index >= cfg.num_reasks
    IN [rec EXCEPT !.llm_response = LLMResponse(raw),
                   !.parsed_output = p.parsed,
                   !.validated_output =
                       IF terminal THEN sub_reasks_with_fixed_values(v) ELSE v,
                   !.reasks = reasks]

\* In iteration i of frame f the first invocation raised and the retry
\* returned.
RetriedOk(f, i) ==
    \E k \in 2..Len(ApiLog(f)) :
        /\ ApiLog(f)[k].index = i
        /\ ~ApiLog(f)[k].base_model
        /\ oracle[k].exc = "none"

RetryResponse(f, i) ==
    LET k == CHOOSE k \in 2..Len(ApiLog(f)) :
                 ApiLog(f)[k].index = i /\ ~ApiLog(f)[k].base_model
    IN Str(oracle[k].cls)

\* C8: an iteration whose first invocation raised and whose retry returned
\* has the record of the retry's response alone: raw response, parsed and
\* validated value and markers are those that response gives, the
\* iteration does not raise, and the loop goes on or ends by its markers
\* and the budget.
C8_RetryLeavesNoTrace ==
    \A f \in Frames :
        \A i \in 0..Me(f).index :
            RetriedOk(f, i) =>
                LET rec == RunHistory(f)[i + 1]
                IN /\ rec.llm_response = LLMResponse(RetryResponse(f, i))
                   /\ i = Me(f).index => Me(f).pc # "raised"
                   /\ (i < Me(f).index \/ Me(f).pc \in {"decide", "done"}) =>
                         rec = NormalRecord(rec, RetryResponse(f, i), i)
                   /\ i < Me(f).index =>
                         (rec.reasks # <<>> /\ i < cfg.num_reasks)
                   /\ (i = Me(f).index /\ Me(f).pc = "done") =>
                         (rec.reasks = <<>> \/ i >= cfg.num_reasks)

C8_Witness ==
    \E f \in Frames :
        /\ Me(f).pc = "done"
        /\ Me(f).index = 1
        /\ RetriedOk(f, 0)
        /\ RetryResponse(f, 0) = Str("invalid")
        /\ RetriedOk(f, 1)
        /\ RetryResponse(f, 1) = Str("valid")

\* C9: when the retry of an iteration raises too, that exception ends the
\* run: the frame has raised it (the retry's, not the first one's),
\* nothing was invoked after the retry, the index has not moved, the
\* history holds index + 1 records, the last of them without response,
\* parsed or validated value and markers; and a
\* frame that has raised does nothing more.
C9_DoubleFailureEndsRun ==
    /\ [](\A f \in Frames :
            LET A == ApiLog(f)
                k == Len(A)
            IN (k >= 1 /\ ~A[k].base_model /\ oracle[k].exc # "none") =>
                  /\ Me(f).pc = "raised"
                  /\ Me(f).err = ApiException(k)
                  /\ Me(f).log[Len(Me(f).log)] = A[k]
                  /\ Me(f).index = A[k].index
                  /\ Len(RunHistory(f)) = Me(f).index + 1
                  /\ LET rec == RunHistory(f)[Me(f).index + 1]
                     IN /\ IsNone(rec.llm_response)
                        /\ IsNone(rec.parsed_output)
                        /\ IsNone(rec.validated_output)
                        /\ rec.reasks = <<>>)
    /\ [][\A f \in Frames :
            Me(f).pc = "raised" =>
                (fr'[f] = fr[f] /\ RunHistory(f)' = RunHistory(f))]_vars

C9_Witness ==
    \E f \in Frames :
        /\ Me(f).pc = "raised"
        /\ Me(f).err = ApiException(4)
        /\ Me(f).index = 1
        /\ Len(RunHistory(f)) = 2

\* C10: a response that does not parse does not end the run by itself: in
\* its iteration Validate is not invoked, the markers are the one
\* NonParseableReAsk, no validated value is recorded, the iteration does
\* not raise, and another iteration follows exactly when the index is
\* below the budget.
C10_ParseFailureIsAMarker ==
    \A f \in Frames :
        Active(f) =>
            LET H == RunHistory(f)
            IN \A i \in 1..Len(H) :
                 H[i].parsed_output = NonParseableReAsk =>
                    /\ ~\E k \in 1..Len(Me(f).log) :
                          /\ Me(f).log[k].op = "validate"
                          /\ Me(f).log[k].index = i - 1
                    /\ (i < Len(H) \/ Me(f).pc \in {"finalize", "decide", "done"})
                          => /\ H[i].reasks = <<NonParseableReAsk>>
                             /\ IsNone(H[i].validated_output)
                    /\ i < Len(H) => i - 1 < cfg.num_reasks
                    /\ i = Len(H) =>
                          /\ Me(f).pc # "raised"
                          /\ Me(f).pc = "done" => i - 1 = cfg.num_reasks

C10_Witness ==
    \E f \in Frames :
        /\ Me(f).pc = "done"
        /\ Len(RunHistory(f)) = 3
        /\ RunHistory(f)[1].parsed_output = NonParseableReAsk
        /\ RunHistory(f)[2].reasks = <<FieldReAsk(2)>>
        /\ RunHistory(f)[3].parsed_output = NonParseableReAsk

\* v is, or contains, a ReAsk marker.
ContainsMarker(v) ==
    \/ v.t \in {"FieldReAsk", "NonParseableReAsk"}
    \/ v.t = "dict" /\ \E i \in 1..Len(v.f) : v.f[i] = "REASK"

\* C11 (as claimed): when a run has ended, neither the validated value of
\* the last record nor the value the last step returned is or contains a
\* marker.
C11_NoMarkerInFinalOutput ==
    \A f \in Frames :
        Me(f).pc = "done" =>
            LET H == hist[Me(f).result]
            IN /\ ~ContainsMarker(H[Len(H)].validated_output)
               /\ ~ContainsMarker(Me(f).ret)

\* What Validate leaves for the parsed value p of a record (None when
\* Validate is skipped), markers intact.
Unfinalized(rec) ==
    IF rec.parsed_output.t = "NonParseableReAsk" THEN None
    ELSE SchemaValidate(rec.parsed_output)

\* The invocation of the reask set-up frame f made after iteration i.
SetupAfter(f, i) ==
    SelectSeq(Me(f).log,
              LAMBDA e : e.op = "get_reask_setup" /\ e.index = i)

\* C12: the markers are replaced in an iteration exactly when the loop
\* does not go on after it (no markers, or index = budget): a record that
\* is followed by another one keeps the validated structure with its
\* markers, and that structure is what the reask set-up gets; the record
\* of the last iteration has them replaced; and the loop goes on after an
\* iteration exactly when its step did not finalize.
C12_FinalizeIffLoopEnds ==
    /\ [](\A f \in Frames :
            Active(f) =>
                LET H == RunHistory(f)
                    me == Me(f)
                IN /\ \A i \in 1..(Len(H) - 1) :
                        /\ H[i].reasks # <<>>
                        /\ i - 1 < cfg.num_reasks
                        /\ H[i].validated_output = Unfinalized(H[i])
                        /\ Len(SetupAfter(f, i - 1)) = 1
                        /\ SetupAfter(f, i - 1)[1].reasks = H[i].reasks
                        /\ SetupAfter(f, i - 1)[1].original_response =
                              PyOr(Unfinalized(H[i]), H[i].parsed_output)
                   /\ me.pc \in {"decide", "done"} =>
                        LET last == H[Len(H)]
                            ends == last.reasks = <<>>
                                       \/ me.index = cfg.num_reasks
                        IN /\ me.terminal = ends
                           /\ last.validated_output =
                                 IF ends
                                 THEN sub_reasks_with_fixed_values(
                                          Unfinalized(last))
                                 ELSE Unfinalized(last)
                   /\ me.pc = "done" => me.terminal)
    /\ [][\A f \in Frames :
            (Me(f).pc = "decide" /\ fr'[f].pc # "decide") =>
                /\ Me(f).terminal => fr'[f].pc = "done"
                /\ ~Me(f).terminal =>
                      (fr'[f].pc = "step" /\ fr'[f].index = Me(f).index + 1)]_vars

C12_Witness ==
    \E f \in Frames :
        /\ Me(f).pc = "done"
        /\ Len(RunHistory(f)) = 3
        /\ RunHistory(f)[1].validated_output = Dict(<<"good", "REASK">>)
        /\ RunHistory(f)[2].validated_output = Dict(<<"good", "REASK">>)
        /\ RunHistory(f)[3].validated_output = Dict(<<"good", "fixed">>)
        /\ RunHistory(f)[3].reasks # <<>>

\* The budget is exhausted while markers remain in frame f.
Exhausted(f) ==
    /\ Me(f).pc \in {"finalize", "decide", "done"}
    /\ Me(f).index = cfg.num_reasks
    /\ Me(f).reasks # <<>>

\* C13: when the budget is exhausted while markers remain, the run raises
\* nothing and returns its history of exactly num_reasks + 1 records; the
\* last record has a validated output without markers and a non-empty
\* list of markers.
C13_ExhaustedBudgetReturnsHistory ==
    /\ [](\A f \in Frames :
            Exhausted(f) =>
                LET H == RunHistory(f)
                    last == H[Len(H)]
                IN /\ Len(H) = cfg.num_reasks + 1
                   /\ IsNone(Me(f).err)
                   /\ last.reasks = Me(f).reasks
                   /\ Me(f).pc \in {"decide", "done"} =>
                         ~ContainsMarker(last.validated_output)
                   /\ Me(f).pc = "done" => hist[Me(f).result] = H)
    /\ [][\A f \in Frames :
            Exhausted(f) =>
                /\ fr'[f].pc \in {"decide", "done"}
                /\ fr'[f].index = fr[f].index
                /\ Len(RunHistory(f)') = Len(RunHistory(f))]_vars

C13_Witness ==
    \E f \in Frames :
        /\ Me(f).pc = "done"
        /\ cfg.num_reasks = 0
        /\ hist[Me(f).result] =
              <<[GuardLogs EXCEPT
                   !.llm_response = LLMResponse(Str("invalid")),
                   !.parsed_output = Dict(<<"good", "bad">>),
                   !.validated_output = Dict(<<"good", "fixed">>),
                   !.reasks = <<FieldReAsk(2)>>]>>

\* The fields of a record in the order the stages produce them.
RecordFields ==
    <<"prompt", "instructions", "msg_history", "llm_response",
      "parsed_output", "validated_output", "reasks">>

Position(field) == CHOOSE k \in 1..Len(RecordFields) : RecordFields[k] = field

\* C14 (as claimed): within an iteration the fields of its record are
\* written in the order of the stages, and none is written twice.
C14_FieldsWrittenOnceInOrder ==
    \A f \in Frames :
        LET w == Me(f).writes
        IN \A i, j \in 1..Len(w) :
              i < j => Position(w[i]) < Position(w[j])

\* Frame f has begun a step: gl names the record of its latest one.
Started(f) == Me(f).gl.h # 0

\* The invocations of schema.parse frame f has made.
ParseLog(f) == SelectSeq(Me(f).log, LAMBDA e : e.op = "parse")

\* C15: the history of a run grows by exactly one empty record at the head
\* of each iteration, the record at position i is the one of iteration i
\* (it holds the response that iteration parsed), and the only record
\* that ever changes is the last one, while its own iteration is inside
\* step: no record is removed, none is changed once its iteration ended.
C15_HistoryAppendOnly ==
    /\ [](\A f \in Frames :
            Started(f) =>
                /\ Me(f).gl.h = self[Me(f).runner].guard_history
                /\ Me(f).gl.i = Len(RunHistory(f))
                /\ Me(f).gl.i = IF Me(f).pc = "step" THEN Me(f).index
                                ELSE Me(f).index + 1
                /\ \A k \in 1..Len(ParseLog(f)) :
                      /\ ParseLog(f)[k].index = k - 1
                      /\ RunHistory(f)[k].llm_response.output
                            = ParseLog(f)[k].output)
    /\ [][\A h \in 1..Len(hist) :
            /\ Len(hist'[h]) >= Len(hist[h])
            /\ Len(hist'[h]) > Len(hist[h]) =>
                  \E f \in Frames :
                      /\ fr[f].pc = "step" /\ fr'[f].pc = "prepare"
                      /\ hist'[h] = Append(hist[h], GuardLogs)
            /\ \A i \in 1..Len(hist[h]) :
                  hist'[h][i] # hist[h][i] =>
                      \E f \in Frames :
                          /\ Me(f).gl = [h |-> h, i |-> i]
                          /\ i = Len(hist[h])
                          /\ Me(f).pc \in {"prepare", "call", "call_except",
                                           "parse", "validate", "introspect",
                                           "finalize"}]_vars

C15_Witness ==
    \E f \in Frames :
        /\ Me(f).pc = "done"
        /\ Len(RunHistory(f)) = 3
        /\ RunHistory(f)[1].llm_response = LLMResponse(Str("garbage"))
        /\ RunHistory(f)[2].llm_response = LLMResponse(Str("invalid"))
        /\ RunHistory(f)[3].llm_response = LLMResponse(Str("valid"))

\* _reset_guard_history has run in the invocation of frame f.
HasReset(f) == Active(f) /\ (IsAsync(f) \/ cfg.missing_keys = <<>>)

StageLog(f) ==
    SelectSeq(Me(f).log,
              LAMBDA e : e.op \in {"api", "parse", "validate", "introspect",
                                   "get_reask_setup"})

\* C17: an asynchronous run has at most one operation in flight, and it is
\* the Call or the Validate of its current iteration; the invocations of
\* one iteration all come before those of the next; and when the Call of
\* iteration n >= 1 is in flight, the markers of iteration n - 1 are
\* recorded and its Introspect and the one reask set-up made from them
\* have been invoked, in that order, before.
C17_IterationsSequential ==
    \A f \in Frames :
        LET me == Me(f)
            L == StageLog(f)
        IN /\ Len(me.aw) <= 1
           /\ \A i, j \in 1..Len(L) : i < j => L[i].index <= L[j].index
           /\ Suspended(f) =>
                /\ IsAsync(f)
                /\ me.aw[1].index = me.index
                /\ Len(RunHistory(f)) = me.index + 1
                /\ me.aw[1].op = "api" =>
                      me.pc \in {"call", "call_except", "cancelled"}
                /\ me.aw[1].op = "async_validate" =>
                      me.pc \in {"validate", "cancelled"}
                /\ \A k \in 1..Len(L) : L[k].index <= me.index
                /\ (me.aw[1].op = "api" /\ me.index >= 1) =>
                      /\ RunHistory(f)[me.index].reasks # <<>>
                      /\ \E i, j \in 1..Len(L) :
                            /\ i < j
                            /\ L[i].op = "introspect"
                            /\ L[i].index = me.index - 1
                            /\ L[j].op = "get_reask_setup"
                            /\ L[j].index = me.index - 1
                            /\ L[j].reasks = RunHistory(f)[me.index].reasks
                            /\ \A k \in (j + 1)..Len(L) :
                                  L[k].op = "api" /\ L[k].index = me.index

C17_Witness ==
    \E f \in Frames :
        /\ Me(f).pc = "call_except"
        /\ Suspended(f)
        /\ Me(f).index = 2
        /\ RunHistory(f)[1].reasks = <<FieldReAsk(2)>>
        /\ RunHistory(f)[2].reasks = <<NonParseableReAsk>>

\* C18: a run abandoned while suspended in iteration i leaves a history of
\* i + 1 records: the first i are the complete records of iterations that
\* were followed by another one, the last holds the request and, when the
\* run was suspended in Validate, the response and the parsed value, and
\* nothing of the stages that had not completed; and nothing changes it
\* afterwards.
C18_AbandonedRunLeavesValidHistory ==
    /\ [](\A f \in Frames :
            Me(f).pc = "cancelled" =>
                LET me == Me(f)
                    H == RunHistory(f)
                    rec == H[Len(H)]
                    unset == [GuardLogs EXCEPT !.prompt = me.s_prompt,
                                               !.instructions = me.s_instructions,
                                               !.msg_history = me.s_msg_history]
                IN /\ Len(H) = me.index + 1
                   /\ \A k \in 1..me.index :
                         /\ ~IsNone(H[k].llm_response)
                         /\ H[k].reasks # <<>>
                         /\ H[k] = NormalRecord(H[k], H[k].llm_response.output,
                                                k - 1)
                   /\ me.aw[1].op = "api" =>
                         /\ rec = unset
                         /\ me.writes = <<"prompt", "instructions",
                                          "msg_history">>
                   /\ me.aw[1].op = "async_validate" =>
                         /\ ~IsNone(me.llm_response)
                         /\ rec = [unset EXCEPT
                                     !.llm_response = me.llm_response,
                                     !.parsed_output =
                                        SchemaParse(me.llm_response.output).parsed]
                         /\ me.writes = <<"prompt", "instructions",
                                          "msg_history", "llm_response",
                                          "parsed_output">>)
    /\ [][\A f \in Frames :
            Me(f).pc = "cancelled" =>
                (fr'[f] = fr[f] /\ RunHistory(f)' = RunHistory(f))]_vars

C18_Witness ==
    \E f \in Frames :
        /\ Me(f).pc = "cancelled"
        /\ Me(f).index = 1
        /\ Me(f).aw[1].op = "async_validate"
        /\ Len(RunHistory(f)) = 2
        /\ RunHistory(f)[2].parsed_output = Dict(<<"good", "bad">>)

\* The raw text iteration i of frame f got: the literal output, or what
\* the model client returned to the last invocation frame f made in it.
OwnResponse(f, i) ==
    IF i = 0 /\ ~IsNone(cfg.output) THEN cfg.output
    ELSE LET A == ApiLog(f)
             p == CHOOSE p \in 1..Len(A) :
                      /\ A[p].index = i
                      /\ \A q \in (p + 1)..Len(A) : A[q].index # i
         IN Str(oracle[p].cls)

\* The metadata updates of the validations frame f has run.
OwnMetadata(f) ==
    UNION {MetadataUpdates(Me(f).log[k].parsed_output) :
             k \in {k \in 1..Len(Me(f).log) : Me(f).log[k].op = "validate"}}

\* C19: two runs interleaved at their suspension points do not see each
\* other: each works on its own history, every record it has completed is
\* the one its own request and the response it got itself give, the
\* metadata of its runner holds the updates of its own validations only,
\* and two runs given the same arguments and the same responses end the
\* same way with equal histories and metadata, whatever the interleaving.
C19_ConcurrentRunsIndependent ==
    /\ \A f \in Frames :
          LET me == Me(f)
              H == RunHistory(f)
          IN /\ self[me.runner].metadata = OwnMetadata(f)
             /\ Started(f) =>
                   /\ me.gl.h = self[me.runner].guard_history
                   /\ \A g \in Frames \ {f} :
                         self[Me(g).runner].guard_history # me.gl.h
                   /\ Len(H) = IF me.pc = "step" THEN me.index
                               ELSE me.index + 1
                   /\ \A k \in 1..Len(H) :
                         (k < Len(H) \/ me.pc \in {"decide", "step", "done"}) =>
                             H[k] = NormalRecord(H[k], OwnResponse(f, k - 1),
                                                 k - 1)
    /\ (Ended(1) /\ Ended(2)) =>
          /\ fr[1].pc = fr[2].pc
          /\ fr[1].err = fr[2].err
          /\ fr[1].log = fr[2].log
          /\ RunHistory(1) = RunHistory(2)
          /\ self[fr[1].runner].metadata = self[fr[2].runner].metadata

C19_Witness ==
    /\ guard_state = <<3, 4>>
    /\ self[1].guard_history = 4
    /\ fr[1].pc = "done"
    /\ Len(RunHistory(1)) = 2
    /\ self[1].metadata = {"good", "bad"}
    /\ fr[2].pc = "validate" /\ Suspended(2)
    /\ fr[2].index = 0
    /\ self[2].metadata = {}

\* C20 (as claimed): in iteration 0 of a run given a literal output,
\* Prepare is skipped (the record has no prompt, instructions or message
\* history, and Prepare raises nothing), the model client is not invoked,
\* the raw response is the literal, and the record is completed from it
\* as from a response of the model client.
C20_ReplaySkipsPrepare ==
    \A f \in Frames :
        (Started(f) /\ ~IsNone(cfg.output)) =>
            LET me == Me(f)
                rec == RunHistory(f)[1]
            IN /\ IsNone(rec.prompt)
               /\ IsNone(rec.instructions)
               /\ IsNone(rec.msg_history)
               /\ \A k \in 1..Len(ApiLog(f)) : ApiLog(f)[k].index >= 1
               /\ ~(me.pc = "raised" /\ me.index = 0)
               /\ (me.index >= 1
                     \/ me.pc \in {"parse", "validate", "introspect",
                                   "finalize", "decide", "done"}) =>
                     rec.llm_response = LLMResponse(cfg.output)
               /\ (me.index >= 1 \/ me.pc \in {"decide", "done"}) =>
                     rec = NormalRecord(rec, cfg.output, 0)

\* The request of the run is misconfigured: no literal output, and no api
\* or neither a prompt nor a message history.
Misconfigured ==
    /\ cfg.missing_keys = <<>>
    /\ IsNone(cfg.output)
    /\ ~cfg.api \/ (~cfg.prompt /\ ~cfg.msg_history)

\* C21: a run with a misconfigured request ends in its first iteration
\* with the ValueError of the configuration error: the model client is
\* never invoked, the except branch of Call is not entered, no second
\* iteration begins, and the error the frame has raised is that
\* ValueError itself.
C21_ConfigurationErrorIsFatal ==
    \A f \in Frames :
        (Active(f) /\ Misconfigured) =>
            /\ Me(f).pc \in {"step", "prepare", "raised"}
            /\ Me(f).index = 0
            /\ ApiLog(f) = <<>>
            /\ Me(f).nd = 0
            /\ oracle = <<>>
            /\ ~Suspended(f)
            /\ Me(f).pc = "raised" =>
                  /\ Len(RunHistory(f)) = 1
                  /\ RunHistory(f)[1] = GuardLogs
                  /\ Me(f).err =
                        IF ~cfg.api
                        THEN ValueError("API must be provided.", <<>>)
                        ELSE ValueError(
                               "Prompt or message history must be provided.",
                               <<>>)

C21_Witness ==
    \E f \in Frames :
        /\ cfg.api /\ cfg.instructions /\ cfg.num_reasks = MaxReasks
        /\ Misconfigured
        /\ Me(f).pc = "raised"
        /\ Me(f).err.msg = "Prompt or message history must be provided."

\* How far a frame at pc is from the end of its iteration.
PcRank(pc) ==
    CASE pc = "idle"        -> 11
      [] pc = "step"        -> 10
      [] pc = "prepare"     -> 9
      [] pc = "call"        -> 8
      [] pc = "call_except" -> 7
      [] pc = "parse"       -> 6
      [] pc = "validate"    -> 5
      [] pc = "introspect"  -> 4
      [] pc = "finalize"    -> 3
      [] pc = "decide"      -> 2
      [] OTHER              -> 0

\* What is left of the run of frame f: the iterations of the budget not
\* yet begun, then the stages of the current one.
Measure(f) ==
    (cfg.num_reasks - Me(f).index) * 2 * (PcRank("idle") + 1)
        + 2 * PcRank(Me(f).pc)
        - (IF Suspended(f) THEN 1 ELSE 0)

\* C22: an invoked run ends: an idle frame is invoked and then returns the
\* history or raises; the index never exceeds the budget and an ended run
\* has begun at most num_reasks + 1 iterations; and every step of a run
\* brings it nearer to its end (what is left of the budget and of the
\* current iteration strictly decreases and is never negative).
C22_RunTerminates ==
    /\ \A f \in Frames : (Me(f).pc = "idle") ~> Ended(f)
    /\ [](\A f \in Frames :
            /\ Me(f).index <= cfg.num_reasks
            /\ Measure(f) >= 0
            /\ (Ended(f) /\ Started(f)) => Me(f).gl.i <= cfg.num_reasks + 1)
    /\ [][\A f \in Frames :
            fr'[f] # fr[f] => Measure(f)' < Measure(f)]_vars

C22_Witness ==
    \E f \in Frames :
        /\ Me(f).pc = "done"
        /\ cfg.num_reasks = MaxReasks
        /\ Me(f).index = MaxReasks
        /\ Me(f).reasks # <<>>
        /\ Len(oracle) = 2 * (MaxReasks + 1)

Returned(fn) == unit.pc = "returned" /\ unit.fn = fn

\* C23: when validate has returned an outcome, the object passed as value
\* is equal to what it was before the call (ValidLength and EndsWith, every
\* input, a list shorter than the minimum length included).
C23_ValidateLeavesValue ==
    (unit.pc = "returned" /\ unit.outcome.t \in {"PassResult", "FailResult"})
        => unit.value = unit.before

\* The numbers (in halves) within the range of validator v.
InRange(v) ==
    {h \in RangeHalves : /\ IsNone(v.min) \/ v.min.h <= h
                         /\ IsNone(v.max) \/ h <= v.max.h}

Distance(a, b) == IF a >= b THEN a - b ELSE b - a

Named(v, sentences, i) ==
    {k \in 1..Len(v.competitors) :
        /\ re_search(v.competitors[k], sentences[i])
        /\ \E j \in 1..Len(v.nlp[i].ents) :
              re_search(v.competitors[k], v.nlp[i].ents[j].text)}

\* The sentences from i on that name no competitor, in their order.
RECURSIVE Unflagged(_, _, _)
Unflagged(v, sentences, i) ==
    IF i > Len(sentences) THEN <<>>
    ELSE (IF Named(v, sentences, i) = {} THEN <<sentences[i]>> ELSE <<>>)
            \o Unflagged(v, sentences, i + 1)

\* The index of the n-th sentence that names a competitor.
NthFlagged(v, sentences, n) ==
    CHOOSE i \in 1..Len(sentences) :
        /\ Named(v, sentences, i) # {}
        /\ Cardinality({j \in 1..i : Named(v, sentences, j) # {}}) = n

\* C25: CompetitorCheck.validate fails exactly when a sentence names a
\* competitor; the message then has one list for each such sentence, in
\* order, holding the competitors named in it, and the fix value is the
\* other sentences joined by single blanks (the empty string when there is
\* none); otherwise it passes.
C25_CompetitorCheck ==
    Returned("CompetitorCheck.validate") =>
        LET v == unit.validator
            sentences == unit.before.s
            o == unit.outcome
            flagged == {i \in 1..Len(sentences) : Named(v, sentences, i) # {}}
        IN  /\ o.t = "FailResult" <=> flagged # {}
            /\ flagged = {} => o = PassResult
            /\ flagged # {} =>
                 /\ o.fix_value = Text(Join(Unflagged(v, sentences, 1)))
                 /\ (flagged = 1..Len(sentences)) => o.fix_value = Text(<<>>)
                 /\ Len(o.fix_value.s) <= Len(Join(sentences))
                 /\ Len(o.error_message.found) = Cardinality(flagged)
                 /\ \A n \in 1..Cardinality(flagged) :
                      LET found == o.error_message.found[n]
                      IN  {found[j] : j \in 1..Len(found)} =
                            {v.competitors[k] :
                                k \in Named(v, sentences, NthFlagged(v, sentences, n))}

\* The unit test: the text is one sentence that has the second of the
\* listed competitors twice, and the model finds it as an entity.
C25_Witness ==
    /\ Returned("CompetitorCheck.validate")
    /\ unit.validator.competitors = <<<<"a">>, <<"B">>>>
    /\ unit.before = List(<<<<"b", " ", "b">>>>)
    /\ unit.validator.nlp[1].ents = <<Span(<<"b">>)>>
    /\ unit.outcome = FailResult([kind |-> "found competitors",
                                  found |-> <<<<<<"B">>>>>>], Text(<<>>))

\* A marker at the second level of v.
DeepMarker(v) ==
    /\ v.t \in {"object", "list"}
    /\ \E i \in 1..Len(v.kids) :
         /\ v.kids[i].t \in {"object", "list"}
         /\ \E j \in 1..Len(v.kids[i].kids) : v.kids[i].kids[j].t = "FieldReAsk"

\* C26: introspecting the value a terminal iteration recorded, the
\* substitution of its validated value, yields no marker: for None, for a
\* NonParseableReAsk and for objects and lists with markers at any depth.
C26_SubstitutionRemovesMarkers ==
    unit.pc = "introspected" => unit.reasks = <<>>

C26_Witness ==
    /\ unit.pc = "introspected"
    /\ DeepMarker(unit.before)
    /\ Len(SchemaIntrospect(unit.before)) > MaxWidth
    /\ unit.outcome # unit.before
    /\ unit.reasks = <<>>

\* C27: substituting a substituted value changes nothing.
C27_SubstitutionIdempotent ==
    unit.pc = "substituted again" => unit.again = unit.outcome

C27_Witness ==
    /\ unit.pc = "substituted again"
    /\ DeepMarker(unit.before)
    /\ unit.before.kids[1].t = "FieldReAsk"
    /\ unit.outcome # unit.before
    /\ unit.again = unit.outcome

\* C28 (as claimed): when Validate ran in an iteration, the value its step
\* returns is the validated value as recorded at the end of the step
\* (after the substitution on a terminal iteration), whatever that value
\* is, an empty one included.
C28_StepReturnsValidatedValue ==
    \A f \in Frames :
        LET me == Me(f)
        IN  (me.pc = "decide"
                /\ ~skip_validate(me.parsed_output, me.parsing_error)) =>
                /\ me.ret = me.validated_output
                /\ me.ret = Logs(f).validated_output

\* Prepare ran in the current iteration of frame f: it left a prompt or a
\* message history in the record (it raises when it has neither).
PrepareRan(f) ==
    ~IsNone(Logs(f).prompt) \/ ~IsNone(Logs(f).msg_history)

\* The model client was invoked in the current iteration of frame f.
Invoked(f) == \E k \in 1..Len(ApiLog(f)) : ApiLog(f)[k].index = Me(f).index

\* C29 (as claimed): once Call is over, Prepare was skipped exactly when
\* Call took the literal output as the response, and the model client was
\* invoked exactly when Prepare ran; and Prepare raises its error about a
\* missing api only when there is no literal output for Call to take.
C29_PrepareAndCallAgreeOnReplay ==
    \A f \in Frames :
        LET me == Me(f)
        IN  /\ me.pc \in {"parse", "validate", "introspect", "finalize",
                          "decide"} =>
                 /\ ~PrepareRan(f) <=>
                        /\ ~IsNone(me.output)
                        /\ Logs(f).llm_response = LLMResponse(me.output)
                        /\ ~Invoked(f)
                 /\ Invoked(f) <=> PrepareRan(f)
            /\ (me.pc = "raised" /\ me.err = ValueError("API must be provided.", <<>>))
                 => IsNone(me.output)

\* The invocations of the reask set-up frame f made, in order.
Setups(f) == SelectSeq(Me(f).log, LAMBDA e : e.op = "get_reask_setup")

\* What the reask set-up returned to invocation e.
SetupResult(e) ==
    get_reask_setup(e.schema, e.reasks, e.original_response, e.use_full_schema)

\* C30: the reask set-up is invoked once for each continuation of the loop,
\* after the last stage of iteration n and before the first of n + 1, with
\* the markers of iteration n and its validated structure, markers intact
\* (the NonParseableReAsk itself when the response did not parse), and
\* with the runner's full_schema_reask every time; iteration n + 1 goes on
\* with the prompt and the schema it returned: they are what it prepares,
\* parses, validates and introspects with; and a run that returned made
\* one invocation fewer than its history has records.
C30_ReaskSetupOncePerContinuation ==
    \A f \in Frames :
        Active(f) =>
            LET me == Me(f)
                H == RunHistory(f)
                S == Setups(f)
                L == StageLog(f)
            IN  /\ Len(S) = me.index
                /\ \A k \in 1..Len(S) :
                     /\ S[k].index = k - 1
                     /\ S[k].reasks = H[k].reasks
                     /\ S[k].reasks # <<>>
                     /\ S[k].original_response =
                          IF H[k].parsed_output = NonParseableReAsk
                          THEN NonParseableReAsk
                          ELSE Unfinalized(H[k])
                     /\ ContainsMarker(S[k].original_response)
                     /\ H[k].validated_output = Unfinalized(H[k])
                     /\ S[k].use_full_schema = cfg.full_schema_reask
                /\ \A i \in 1..Len(L), j \in 1..Len(L) :
                     i < j =>
                        /\ L[i].index <= L[j].index
                        /\ L[i].op = "get_reask_setup" => L[i].index < L[j].index
                /\ me.index >= 1 =>
                     /\ me.prompt = SetupResult(S[me.index]).prompt
                     /\ me.output_schema = SetupResult(S[me.index]).output_schema
                     /\ me.pc = "prepare" =>
                          me.s_prompt = SetupResult(S[me.index]).prompt
                /\ \A k \in 1..Len(L) :
                     (L[k].op \in {"parse", "validate", "introspect"}
                         /\ L[k].index >= 1) =>
                        L[k].schema = SetupResult(S[L[k].index]).output_schema
                /\ \A i \in 2..Len(H) :
                     ~IsNone(H[i].prompt) =>
                        /\ H[i].prompt.src = "reask"
                        /\ H[i].prompt.gen = SetupResult(S[i - 1]).prompt.gen
                /\ me.pc = "done" => Len(S) = Len(H) - 1

C30_Witness ==
    \E f \in Frames :
        /\ Me(f).pc = "done"
        /\ cfg.full_schema_reask
        /\ Len(Setups(f)) = MaxReasks
        /\ Len(RunHistory(f)) = MaxReasks + 1
        /\ Setups(f)[1].original_response = NonParseableReAsk
        /\ Setups(f)[MaxReasks].original_response = Dict(<<"good", "REASK">>)
        /\ Setups(f)[MaxReasks].use_full_schema

\* The invocations of the model client frame f made in iteration i.
ApiLogAt(f, i) == SelectSeq(ApiLog(f), LAMBDA e : e.index = i)

\* C31: the literal output stands for the response in iteration 0 only.
\* With a literal the model client is not invoked in iteration 0; every
\* later iteration has no literal and gets its response from the model
\* client; so a run with a literal and no api that goes on after iteration
\* 0 ends in the Prepare of iteration 1, with the error about the api, its
\* history holding the record of iteration 0 and the still empty record of
\* iteration 1.
C31_LiteralOutputInFirstIterationOnly ==
    \A f \in Frames :
        Active(f) =>
            LET me == Me(f)
                H == RunHistory(f)
            IN  /\ ~IsNone(cfg.output) => ApiLogAt(f, 0) = <<>>
                /\ (me.index >= 1 /\ me.pc # "step") => IsNone(me.output)
                /\ \A i \in 2..Len(H) :
                     ~IsNone(H[i].llm_response) =>
                        /\ ApiLogAt(f, i - 1) # <<>>
                        /\ \E k \in 1..Len(ApiLog(f)) :
                             /\ ApiLog(f)[k].index = i - 1
                             /\ oracle[k].exc = "none"
                             /\ H[i].llm_response =
                                  LLMResponse(Str(oracle[k].cls))
                /\ (~cfg.api /\ me.index >= 1) =>
                     /\ ~IsNone(cfg.output)
                     /\ me.index = 1
                     /\ me.pc \in {"step", "prepare", "raised"}
                     /\ H[1].reasks # <<>>
                     /\ ApiLog(f) = <<>>
                     /\ me.pc = "raised" =>
                          /\ me.err = ValueError("API must be provided.", <<>>)
                          /\ Len(H) = 2
                          /\ H[2] = GuardLogs

C31_Witness ==
    \E f \in Frames :
        /\ ~cfg.api
        /\ cfg.output = Str("invalid")
        /\ cfg.num_reasks = MaxReasks
        /\ Me(f).pc = "raised"
        /\ Me(f).index = 1
        /\ Len(RunHistory(f)) = 2
        /\ RunHistory(f)[1].llm_response = LLMResponse(cfg.output)

----------------------------------------------------------------------------
(* The order of the stages *)

\* The positions a frame can be in right after the position pc.
StageSucc(pc) ==
    CASE pc = "idle" -> {"step", "raised"}
      [] pc = "step" -> {"prepare"}
      [] pc = "prepare" -> {"call", "raised"}
      [] pc = "call" -> {"call_except", "parse", "raised", "cancelled"}
      [] pc = "call_except" -> {"parse", "raised", "cancelled"}
      [] pc = "parse" -> {"validate", "introspect"}
      [] pc = "validate" -> {"introspect", "cancelled"}
      [] pc = "introspect" -> {"finalize"}
      [] pc = "finalize" -> {"decide"}
      [] pc = "decide" -> {"step", "done"}
      [] OTHER -> {}

\* The fields of the record Prepare assigns.
PrepareWrites == <<"prompt", "instructions", "msg_history">>

\* The fields of the record assigned when the frame is at pc, in order;
\* validated tells whether Validate ran.
WritesAt(pc, validated) ==
    LET parsed == PrepareWrites \o <<"llm_response", "parsed_output">>
        checked == parsed \o (IF validated THEN <<"validated_output">> ELSE <<>>)
    IN CASE pc = "prepare" -> <<>>
         [] pc \in {"call", "call_except"} -> PrepareWrites
         [] pc = "parse" -> PrepareWrites \o <<"llm_response">>
         [] pc = "validate" -> parsed
         [] pc = "introspect" -> checked
         [] pc = "finalize" -> checked \o <<"reasks">>
         [] pc = "decide" -> checked \o <<"reasks", "validated_output">>

\* The place of a collaborator invocation in the order of the stages.
OpRank(op) ==
    CASE op = "api" -> 2
      [] op = "parse" -> 3
      [] op = "validate" -> 4
      [] op = "introspect" -> 5
      [] op = "get_reask_setup" -> 7

\* The collaborator invocations of iteration i of frame f.
StageLogAt(f, i) == SelectSeq(StageLog(f), LAMBDA e : e.index = i)

\* C32: within an iteration the stages run in the order Prepare, Call,
\* Parse, Validate, Introspect, Finalize, each after the one before it has
\* completed: the frame moves through them in this order only, the record
\* holds exactly what the completed stages assigned, and the collaborators
\* are invoked in this order.  A parse failure skips Validate.  A stage
\* that raises ends the iteration there: nothing of a later stage is in
\* its record, no collaborator of a later stage was invoked, nothing runs
\* afterwards, and the records of the iterations before it stay what they
\* were.
C32_StagesInStrictSequence ==
    /\ [][\A f \in Frames :
            /\ Me(f).pc' # Me(f).pc => Me(f).pc' \in StageSucc(Me(f).pc)
            /\ (Me(f).pc = "parse" /\ Me(f).parsing_error')
                  => Me(f).pc' = "introspect"
            /\ Me(f).pc = "raised" =>
                  /\ Me(f)' = Me(f)
                  /\ Started(f) => hist'[Me(f).gl.h] = hist[Me(f).gl.h]
            /\ (Started(f) /\ Me(f).pc # "step") =>
                  \A i \in 1..Len(hist[Me(f).gl.h]) :
                      i # Me(f).gl.i =>
                          /\ i <= Len(hist'[Me(f).gl.h])
                          /\ hist'[Me(f).gl.h][i] = hist[Me(f).gl.h][i]]_vars
    /\ [](\A f \in Frames :
            /\ ~IsNone(Me(f).err) <=> Me(f).pc = "raised"
            /\ InStep(f) =>
                  /\ Me(f).writes
                        = WritesAt(Me(f).pc,
                                   ~skip_validate(Me(f).parsed_output,
                                                  Me(f).parsing_error))
                  /\ \A k \in DOMAIN GuardLogs :
                        (\A j \in 1..Len(Me(f).writes) : Me(f).writes[j] # k)
                            => Logs(f)[k] = GuardLogs[k]
            /\ (Started(f) /\ Me(f).pc = "raised") =>
                  /\ Me(f).writes \in {<<>>, PrepareWrites}
                  /\ \A k \in {"llm_response", "parsed_output",
                                "validated_output", "reasks"} :
                        Logs(f)[k] = GuardLogs[k]
                  /\ \A j \in 1..Len(StageLogAt(f, Me(f).index)) :
                        StageLogAt(f, Me(f).index)[j].op = "api"
            /\ Active(f) =>
                  \A i \in 0..Me(f).index :
                      LET S == StageLogAt(f, i)
                      IN \A j \in 1..Len(S), k \in 1..Len(S) :
                            j < k => /\ OpRank(S[j].op) <= OpRank(S[k].op)
                                     /\ S[j].op = S[k].op => S[j].op = "api")

\* Iteration 1 raised in its Call, after its Prepare, with the record of
\* iteration 0 complete.
C32_Witness ==
    \E f \in Frames :
        /\ Me(f).pc = "raised"
        /\ Me(f).index = 1
        /\ Me(f).err.t = "Exception"
        /\ Len(RunHistory(f)) = 2
        /\ RunHistory(f)[1].reasks # <<>>
        /\ ~IsNone(RunHistory(f)[1].parsed_output)
        /\ ~IsNone(RunHistory(f)[2].prompt)
        /\ IsNone(RunHistory(f)[2].llm_response)

----------------------------------------------------------------------------
(* Suspension points *)

\* The operation a coroutine awaits at the position pc.
AwaitedAt(pc) ==
    CASE pc \in {"call", "call_except"} -> "api"
      [] pc = "validate" -> "async_validate"
      [] OTHER -> "-"

\* C33: an asynchronous run is suspended only inside Call (on the model
\* client) and inside Validate (on the schema's validation); everything
\* else of an iteration and of the loop runs between two suspensions.  So
\* whenever another coroutine takes a step, a run that has begun is ended
\* or is suspended in Call, with what Prepare assigned in its record, or in
\* Validate, with what Prepare, Call and Parse assigned, and with the
\* reask set-up of every earlier iteration made.
C33_SuspendsOnlyInCallAndValidate ==
    /\ [](\A f \in Frames :
            Suspended(f) =>
                /\ IsAsync(f)
                /\ Me(f).pc \in {"call", "call_except", "validate"}
                /\ \A j \in 1..Len(Me(f).aw) :
                      /\ Me(f).aw[j].op = AwaitedAt(Me(f).pc)
                      /\ Me(f).aw[j].index = Me(f).index
                /\ Me(f).writes = WritesAt(Me(f).pc, TRUE)
                /\ \A k \in DOMAIN GuardLogs :
                      (\A j \in 1..Len(Me(f).writes) : Me(f).writes[j] # k)
                          => Logs(f)[k] = GuardLogs[k]
                /\ Len(SelectSeq(Me(f).log,
                                 LAMBDA e : e.op = "get_reask_setup"))
                      = Me(f).index)
    /\ [][\A f \in Frames : \A g \in Frames \ {f} :
            Me(g)' # Me(g) =>
                /\ Me(f)' = Me(f)
                /\ \/ Me(f).pc \in {"idle", "done", "raised", "cancelled"}
                   \/ Suspended(f)]_vars

\* One run is suspended in the Validate of iteration 1 while the other,
\* started after it, is suspended in its Call.
C33_Witness ==
    \E f \in Frames : \E g \in Frames \ {f} :
        /\ Suspended(f) /\ Me(f).pc = "validate" /\ Me(f).index = 1
        /\ Suspended(g) /\ Me(g).pc = "call" /\ Me(g).index = 0

----------------------------------------------------------------------------
(* Two invocations of one AsyncRunner *)

\* C34: the records an invocation of async_run creates are in the history
\* this invocation returns and in no other: the history it returns holds
\* the record of each of its iterations and nothing else, and no two
\* invocations put their records into the same history.
C34_RecordsInReturnedHistory ==
    /\ \A f \in Frames :
          Me(f).pc = "done" =>
              /\ Me(f).gl.h = Me(f).result
              /\ Len(hist[Me(f).result]) = Me(f).index + 1
    /\ \A f \in Frames : \A g \in Frames \ {f} :
          (Started(f) /\ Started(g)) => Me(f).gl.h # Me(g).gl.h

----------------------------------------------------------------------------
(* The fix values of the validators *)

\* The input x padded with copies of its last element to the length n (an
\* empty input has no last element: any one element, repeated).
Padded(x, n) ==
    IF x.s = <<>>
    THEN {[t |-> x.t, s |-> Repeat(c, n)] : c \in Chars}
    ELSE {[t |-> x.t, s |-> x.s \o Repeat(x.s[Len(x.s)], n - Len(x.s))]}

\* C35: when ValidLength.validate fails, the fix value is the input
\* brought into the range: an input shorter than min padded with copies of
\* its last element to the length min, a longer one than max cut to its
\* first max elements; for texts and for lists.
C35_ValidLengthFixInRange ==
    (Returned("ValidLength.validate") /\ unit.outcome.t = "FailResult") =>
        LET v == unit.validator
            x == unit.before
        IN  IF ~IsNone(v.min) /\ Len(x.s) < v.min.n
            THEN unit.outcome.fix_value \in Padded(x, v.min.n)
            ELSE unit.outcome.fix_value = [t |-> x.t, s |-> SubSeq(x.s, 1, v.max.n)]

\* C36: for ValidRange, LowerCase, UpperCase, TwoWords, OneLine and
\* ValidLength, the fix value of a Fail outcome passes the validator that
\* gave it.
C36_FixPassesValidator ==
    unit.pc = "revalidated" => unit.again.t = "PassResult"

----------------------------------------------------------------------------
(* The caller's message history *)

\* What the model client is sent for the message m of the caller.
SentFor(m) == [m EXCEPT !.content = source(format(AsPrompt(m.content)))]

\* C37: constructing and running a runner leaves the caller's message
\* history as it was given, the list and each dict of it: the constructor,
\* Prepare and Call each work on a deep copy.  The history the runner
\* stores stays what the constructor made of it over all invocations, the
\* record of Prepare stays what Prepare made, and every Call sends the
\* same request.
C37_CallerMsgHistoryUntouched ==
    unit.pc \in {"new", "built", "prepared"} =>
        /\ Deref(unit.heap, unit.caller) = unit.given
        /\ unit.pc # "new" =>
              IF unit.given = <<>> THEN unit.self_msg_history = NoList
              ELSE /\ Deref(unit.heap, unit.self_msg_history) = unit.stored
                   /\ unit.stored
                        = [i \in 1..Len(unit.given) |->
                             [unit.given[i] EXCEPT !.content = AsPrompt(@)]]
                   /\ \A i \in 1..Len(unit.caller) :
                        \A j \in 1..Len(unit.self_msg_history) :
                            unit.caller[i] # unit.self_msg_history[j]
        /\ unit.msg_history # NoList =>
              /\ Deref(unit.heap, unit.msg_history) = unit.recorded
              /\ \A i \in 1..Len(unit.msg_history) :
                    unit.recorded[i].content.t = "Prompt"
        /\ Len(unit.sent) = unit.calls
        /\ \A k \in 1..Len(unit.sent) :
              unit.sent[k] = [i \in 1..Len(unit.given) |-> SentFor(unit.given[i])]

\* The runner built on a history of MaxMessages messages has been invoked
\* MaxCalls times.
C37_Witness ==
    /\ unit.pc = "built"
    /\ Len(unit.given) = MaxMessages
    /\ unit.calls = MaxCalls
    /\ Len(unit.sent) = MaxCalls

----------------------------------------------------------------------------
(* Named entity recognition *)

\* C38: CompetitorCheck.perform_ner returns the texts of the entities the
\* NLP model reports for the text: as many as there are entities, the k-th
\* the text of the k-th entity, whether or not it names a listed
\* competitor and whether or not it occurred before.
C38_PerformNerReturnsEntityTexts ==
    Returned("CompetitorCheck.perform_ner") =>
        LET ents == unit.validator.nlp[1].ents
            entities == unit.outcome.s
        IN  /\ unit.outcome.t = "list"
            /\ Len(entities) = Len(ents)
            /\ \A k \in 1..Len(ents) : entities[k] = ents[k].text

\* The model reports an entity twice and one that no competitor name
\* occurs in; all three texts are returned.
C38_Witness ==
    /\ Returned("CompetitorCheck.perform_ner")
    /\ unit.validator.competitors = <<<<"a">>>>
    /\ unit.outcome = List(<<<<"a">>, <<"c">>, <<"a">>>>)

============================================================================
